---------------------------- MODULE Spec2Model ----------------------------
(***************************************************************************)
(* Model of the Quotex AI Trading Signals extension.                       *)
(*                                                                         *)
(*   background.js   the background script: the shared state, the          *)
(*                   newCandleData evaluation pipeline (processData,       *)
(*                   calculateIndicators, getAIPrediction, generateSignal),*)
(*                   the accuracy tracker and the stats restore.           *)
(*   part_001        the AI analysis module (getAIPrediction with the      *)
(*                   pattern-based fallback, detectCandlestickPatterns,    *)
(*                   detectTrend).                                         *)
(*   part_000        the content script of the trading page (extraction,   *)
(*                   overlay, its listener) and the popup (its state,      *)
(*                   listeners and callbacks).                             *)
(*   dataExtractor.js the indicator library (calculateAllIndicators and    *)
(*                   the EMA, MACD, RSI, Bollinger and volume functions)   *)
(*                   and normalizeCandleData.                              *)
(*                                                                         *)
(* Numbers.  Prices and volumes are integers.  Every confidence is held    *)
(* in hundredths (0.5 is 50) and every score of the signal scorer in       *)
(* hundredths of a point (30 points is 3000), so that 20 * confidence is   *)
(* the integer 20 * c.  The values the indicator library derives from      *)
(* prices (averages, EMAs, bands) are held in millionths, rounded down.    *)
(* A comparison x / y < r is decided by cross-multiplication with the      *)
(* sign of y; a quotient the program stores (rsi.value, bb.width) is held  *)
(* as [num, den] in lowest terms, den = 0 being the IEEE outcomes of a     *)
(* zero denominator (NaN, +/-Infinity), compared as JavaScript compares    *)
(* them.                                                                   *)
(*                                                                         *)
(* JavaScript values that are absent are records of their own:             *)
(* Undefined, Null, NoResponse.                                            *)
(***************************************************************************)
EXTENDS Integers, Sequences, FiniteSets, TLC

(***************************************************************************)
(* Bounds of the model.                                                    *)
(***************************************************************************)
\* newCandleData requests the content script sends in one run
MaxEvals == 2
\* trackSignalResult messages handled in one run
MaxRecords == 3
\* largest totalSignals a previous session may have persisted
MaxStored == 2
\* MACD histogram values of the scorer's inputs range over -MaxHist..MaxHist
MaxHist == 1

Evals == 1..MaxEvals

(***************************************************************************)
(* Absent values.                                                          *)
(***************************************************************************)
Undefined == [undefined |-> TRUE]
Null == [null |-> TRUE]
NoResponse == [pending |-> TRUE]

IsUndefined(x) == "undefined" \in DOMAIN x
IsNull(x) == "null" \in DOMAIN x

Min(a, b) == IF a < b THEN a ELSE b
Max(a, b) == IF a > b THEN a ELSE b
Abs(a) == IF a < 0 THEN -a ELSE a

\* background.js TIMEFRAMES: the keys (the durations are not used by the engine)
TIMEFRAMES == {"M1", "M5", "M15"}

(***************************************************************************)
(* Comparisons of a JavaScript quotient x / y with a rational num / den    *)
(* (den > 0), as IEEE arithmetic decides them: a zero divisor gives        *)
(* +Infinity, -Infinity or NaN, and every comparison with NaN is false.    *)
(***************************************************************************)
QuotientLess(x, y, num, den) ==
  IF y > 0 THEN den * x < num * y
  ELSE IF y < 0 THEN den * x > num * y
  ELSE x < 0

QuotientGreater(x, y, num, den) ==
  IF y > 0 THEN den * x > num * y
  ELSE IF y < 0 THEN den * x < num * y
  ELSE x > 0

(***************************************************************************)
(* A JavaScript number that is the result of a division by a value of the  *)
(* data is held as the quotient itself, [num, den] in lowest terms with    *)
(* den >= 0: den = 0 is the IEEE result of a division by zero, 1/0 being   *)
(* +Infinity, -1/0 -Infinity and 0/0 NaN.                                  *)
(***************************************************************************)
RECURSIVE GCD(_, _)
GCD(a, b) == IF b = 0 THEN a ELSE GCD(b, a % b)

Sign(x) == IF x > 0 THEN 1 ELSE IF x < 0 THEN -1 ELSE 0

\* x / y for integers x and y
Quotient(x, y) ==
  IF y = 0 THEN [num |-> Sign(x), den |-> 0]
  ELSE LET g == GCD(Abs(x), Abs(y))
       IN  [num |-> Sign(y) * (x \div g), den |-> Abs(y) \div g]

Whole(n) == [num |-> n, den |-> 1]
NaN == [num |-> 0, den |-> 0]

\* isNaN(q) and isFinite(q)
IsNaN(q) == q.den = 0 /\ q.num = 0
IsFinite(q) == q.den > 0

\* q < k and q > k for an integer k
Less(q, k) == QuotientLess(q.num, q.den, k, 1)
Greater(q, k) == QuotientGreater(q.num, q.den, k, 1)

(***************************************************************************)
(* generateSignal (background.js 150-217), the signal scorer.              *)
(* signalPoints is accumulated in the order of the code; the volume        *)
(* confirmation reads the running value.  All values in hundredths.        *)
(***************************************************************************)
emaPoints(ema) ==
  IF ema.crossover = "bullish" THEN 2000
  ELSE IF ema.crossover = "bearish" THEN -2000 ELSE 0

macdPoints(macd) ==
  IF macd.histogram > 0 /\ macd.histogram > macd.previousHistogram THEN 2000
  ELSE IF macd.histogram < 0 /\ macd.histogram < macd.previousHistogram THEN -2000
  ELSE 0

rsiPoints(rsi) ==
  IF Less(rsi.value, 30) THEN 1500 ELSE IF Greater(rsi.value, 70) THEN -1500 ELSE 0

bbPoints(bb) ==
  IF bb.position = "lower" THEN 1500
  ELSE IF bb.position = "upper" THEN -1500 ELSE 0

\* the volume confirmation added whatever the sign of the running score
volumePointsAlwaysUp(volume, running) ==
  IF volume.trend = "increasing" THEN 1000 ELSE 0

volumePoints(volume, running) ==
  IF volume.trend = "increasing"
  THEN (IF running > 0 THEN 1000 ELSE IF running < 0 THEN -1000 ELSE 0)
  ELSE 0

aiPoints(aiAnalysis) ==
  IF aiAnalysis.prediction = "up" THEN 20 * aiAnalysis.confidence
  ELSE IF aiAnalysis.prediction = "down" THEN -(20 * aiAnalysis.confidence)
  ELSE 0

signalPoints(indicators, aiAnalysis) ==
  LET p1 == emaPoints(indicators.ema)
      p2 == p1 + macdPoints(indicators.macd)
      p3 == p2 + rsiPoints(indicators.rsi)
      p4 == p3 + bbPoints(indicators.bb)
      p5 == p4 + volumePoints(indicators.volume, p4)
  IN  p5 + aiPoints(aiAnalysis)

\* the thresholds taken inclusive
signalTypeInclusive(points) ==
  IF points >= 3000 THEN "buy" ELSE IF points <= -3000 THEN "sell" ELSE "neutral"

signalType(points) ==
  IF points > 3000 THEN "buy" ELSE IF points < -3000 THEN "sell" ELSE "neutral"

signalStrength(points) == Min(Abs(points), 10000)

signalRecommendation(points) ==
  IF points > 3000 THEN "Buy" ELSE IF points < -3000 THEN "Sell" ELSE "Hold"

generateSignal(indicators, aiAnalysis) ==
  LET points == signalPoints(indicators, aiAnalysis)
  IN  [type |-> signalType(points),
       strength |-> signalStrength(points),
       recommendation |-> signalRecommendation(points),
       aiConfidence |-> aiAnalysis.confidence,
       details |-> [ema |-> indicators.ema.crossover,
                    macd |-> IF indicators.macd.histogram > 0
                             THEN "bullish" ELSE "bearish",
                    rsi |-> indicators.rsi.value,
                    bb |-> indicators.bb.position,
                    volume |-> indicators.volume.trend]]


(***************************************************************************)
(* detectTrend (part_001 299-317): the 10-bar percentage change of the     *)
(* close, (last - first) / first * 100, against +2 and -2.                 *)
(***************************************************************************)
detectTrend(candles) ==
  IF Len(candles) < 10 THEN "sideways"
  ELSE LET firstPrice == candles[Len(candles) - 9].close
           lastPrice == candles[Len(candles)].close
       IN  IF QuotientGreater(100 * (lastPrice - firstPrice), firstPrice, 2, 1)
           THEN "uptrend"
           ELSE IF QuotientLess(100 * (lastPrice - firstPrice), firstPrice, -2, 1)
           THEN "downtrend"
           ELSE "sideways"

(***************************************************************************)
(* detectCandlestickPatterns (part_001 218-292).  score in points,         *)
(* confidence in hundredths.                                               *)
(***************************************************************************)
\* the engulfing check made before the hammer check
detectCandlestickPatternsEngulfingFirst(candles) ==
  IF Len(candles) < 5 THEN [score |-> 0, confidence |-> 0]
  ELSE
    LET lastCandle == candles[Len(candles)]
        previousCandle == candles[Len(candles) - 1]
        thirdLastCandle == candles[Len(candles) - 2]
        bodySize == Abs(lastCandle.close - lastCandle.open)
        totalSize == lastCandle.high - lastCandle.low
        lowerWick == Min(lastCandle.open, lastCandle.close) - lastCandle.low
        upperWick == lastCandle.high - Max(lastCandle.open, lastCandle.close)
        trend == detectTrend(candles)
        lastBullish == lastCandle.close > lastCandle.open
        prevBullish == previousCandle.close > previousCandle.open
    IN
    IF QuotientLess(bodySize, totalSize, 1, 10)
      THEN [score |-> 0, confidence |-> 2]
    ELSE IF lastBullish /\ ~prevBullish
            /\ lastCandle.open < previousCandle.close
            /\ lastCandle.close > previousCandle.open
      THEN [score |-> 10, confidence |-> 5]
    ELSE IF ~lastBullish /\ prevBullish
            /\ lastCandle.open > previousCandle.close
            /\ lastCandle.close < previousCandle.open
      THEN [score |-> -10, confidence |-> 5]
    ELSE IF lowerWick > bodySize * 2 /\ 2 * upperWick < bodySize
            /\ trend = "downtrend"
      THEN [score |-> 10, confidence |-> 4]
    ELSE IF lowerWick > bodySize * 2 /\ 2 * upperWick < bodySize
            /\ trend = "uptrend"
      THEN [score |-> -10, confidence |-> 4]
    ELSE IF lastBullish /\ prevBullish
            /\ thirdLastCandle.close > thirdLastCandle.open
            /\ lastCandle.close > previousCandle.close
            /\ previousCandle.close > thirdLastCandle.close
      THEN [score |-> 10, confidence |-> 5]
    ELSE IF ~lastBullish /\ ~prevBullish
            /\ thirdLastCandle.close < thirdLastCandle.open
            /\ lastCandle.close < previousCandle.close
            /\ previousCandle.close < thirdLastCandle.close
      THEN [score |-> -10, confidence |-> 5]
    ELSE [score |-> 0, confidence |-> 0]

detectCandlestickPatterns(candles) ==
  IF Len(candles) < 5 THEN [score |-> 0, confidence |-> 0]
  ELSE
    LET lastCandle == candles[Len(candles)]
        previousCandle == candles[Len(candles) - 1]
        thirdLastCandle == candles[Len(candles) - 2]
        bodySize == Abs(lastCandle.close - lastCandle.open)
        totalSize == lastCandle.high - lastCandle.low
        lowerWick == Min(lastCandle.open, lastCandle.close) - lastCandle.low
        upperWick == lastCandle.high - Max(lastCandle.open, lastCandle.close)
        trend == detectTrend(candles)
        lastBullish == lastCandle.close > lastCandle.open
        prevBullish == previousCandle.close > previousCandle.open
    IN
    IF QuotientLess(bodySize, totalSize, 1, 10)
      THEN [score |-> 0, confidence |-> 2]
    ELSE IF lowerWick > bodySize * 2 /\ 2 * upperWick < bodySize
            /\ trend = "downtrend"
      THEN [score |-> 10, confidence |-> 4]
    ELSE IF lowerWick > bodySize * 2 /\ 2 * upperWick < bodySize
            /\ trend = "uptrend"
      THEN [score |-> -10, confidence |-> 4]
    ELSE IF lastBullish /\ ~prevBullish
            /\ lastCandle.open < previousCandle.close
            /\ lastCandle.close > previousCandle.open
      THEN [score |-> 10, confidence |-> 5]
    ELSE IF ~lastBullish /\ prevBullish
            /\ lastCandle.open > previousCandle.close
            /\ lastCandle.close < previousCandle.open
      THEN [score |-> -10, confidence |-> 5]
    ELSE IF lastBullish /\ prevBullish
            /\ thirdLastCandle.close > thirdLastCandle.open
            /\ lastCandle.close > previousCandle.close
            /\ previousCandle.close > thirdLastCandle.close
      THEN [score |-> 10, confidence |-> 5]
    ELSE IF ~lastBullish /\ ~prevBullish
            /\ thirdLastCandle.close < thirdLastCandle.open
            /\ lastCandle.close < previousCandle.close
            /\ previousCandle.close < thirdLastCandle.close
      THEN [score |-> -10, confidence |-> 5]
    ELSE [score |-> 0, confidence |-> 0]

(***************************************************************************)
(* getPatternBasedPrediction (part_001 137-211), the local fallback        *)
(* estimate.  predictionScore in points, confidenceScore in hundredths.    *)
(***************************************************************************)
\* the confidence returned as accumulated
getPatternBasedPredictionUnclamped(candles, indicators) ==
  LET s1 == IF indicators.ema.crossover = "bullish" THEN 25
            ELSE IF indicators.ema.crossover = "bearish" THEN -25 ELSE 0
      c1 == IF indicators.ema.crossover \in {"bullish", "bearish"} THEN 10 ELSE 0
      macdUp == indicators.macd.histogram > 0
                /\ indicators.macd.histogram > indicators.macd.previousHistogram
      macdDown == ~macdUp /\ indicators.macd.histogram < 0
                  /\ indicators.macd.histogram < indicators.macd.previousHistogram
      s2 == s1 + (IF macdUp THEN 20 ELSE IF macdDown THEN -20 ELSE 0)
      c2 == c1 + (IF macdUp \/ macdDown THEN 8 ELSE 0)
      s3 == s2 + (IF Less(indicators.rsi.value, 30) THEN 15
                  ELSE IF Greater(indicators.rsi.value, 70) THEN -15 ELSE 0)
      c3 == c2 + (IF Less(indicators.rsi.value, 30)
                     \/ Greater(indicators.rsi.value, 70)
                  THEN 6 ELSE 0)
      s4 == s3 + (IF indicators.bb.position = "lower" THEN 20
                  ELSE IF indicators.bb.position = "upper" THEN -20 ELSE 0)
      c4 == c3 + (IF indicators.bb.position \in {"lower", "upper"} THEN 8 ELSE 0)
      volumeFires == indicators.volume.trend = "increasing" /\ s4 # 0
      s5 == s4 + (IF volumeFires THEN (IF s4 > 0 THEN 10 ELSE -10) ELSE 0)
      c5 == c4 + (IF volumeFires THEN 4 ELSE 0)
      patternResult == detectCandlestickPatterns(candles)
      predictionScore == s5 + patternResult.score
      confidenceScore == 50 + c5 + patternResult.confidence
  IN  [prediction |-> IF predictionScore > 15 THEN "up"
                      ELSE IF predictionScore < -15 THEN "down" ELSE "neutral",
       confidence |-> confidenceScore,
       source |-> "pattern"]

getPatternBasedPrediction(candles, indicators) ==
  LET s1 == IF indicators.ema.crossover = "bullish" THEN 25
            ELSE IF indicators.ema.crossover = "bearish" THEN -25 ELSE 0
      c1 == IF indicators.ema.crossover \in {"bullish", "bearish"} THEN 10 ELSE 0
      macdUp == indicators.macd.histogram > 0
                /\ indicators.macd.histogram > indicators.macd.previousHistogram
      macdDown == ~macdUp /\ indicators.macd.histogram < 0
                  /\ indicators.macd.histogram < indicators.macd.previousHistogram
      s2 == s1 + (IF macdUp THEN 20 ELSE IF macdDown THEN -20 ELSE 0)
      c2 == c1 + (IF macdUp \/ macdDown THEN 8 ELSE 0)
      s3 == s2 + (IF Less(indicators.rsi.value, 30) THEN 15
                  ELSE IF Greater(indicators.rsi.value, 70) THEN -15 ELSE 0)
      c3 == c2 + (IF Less(indicators.rsi.value, 30)
                     \/ Greater(indicators.rsi.value, 70)
                  THEN 6 ELSE 0)
      s4 == s3 + (IF indicators.bb.position = "lower" THEN 20
                  ELSE IF indicators.bb.position = "upper" THEN -20 ELSE 0)
      c4 == c3 + (IF indicators.bb.position \in {"lower", "upper"} THEN 8 ELSE 0)
      volumeFires == indicators.volume.trend = "increasing" /\ s4 # 0
      s5 == s4 + (IF volumeFires THEN (IF s4 > 0 THEN 10 ELSE -10) ELSE 0)
      c5 == c4 + (IF volumeFires THEN 4 ELSE 0)
      patternResult == detectCandlestickPatterns(candles)
      predictionScore == s5 + patternResult.score
      confidenceScore == 50 + c5 + patternResult.confidence
  IN  [prediction |-> IF predictionScore > 15 THEN "up"
                      ELSE IF predictionScore < -15 THEN "down" ELSE "neutral",
       confidence |-> Min(Max(confidenceScore, 30), 85),
       source |-> "pattern"]


(***************************************************************************)
(* The indicator library (dataExtractor.js 474-814).  A close and a volume *)
(* are integers; every value the library derives from them is held in      *)
(* millionths (Scale), a quotient by a constant rounding down.  rsi.value  *)
(* and bb.width, the two quotients by a value of the data, are quotients   *)
(* [num, den].                                                             *)
(***************************************************************************)
Scale == 1000 * 1000

closesOf(candles) == [i \in 1..Len(candles) |-> candles[i].close * Scale]
volumesOf(candles) == [i \in 1..Len(candles) |-> candles[i].volume]

RECURSIVE SumOver(_, _, _)
SumOver(f, from, to) == IF from > to THEN 0 ELSE f[to] + SumOver(f, from, to - 1)

\* (values[from] + ... + values[to]) / n
Average(values, from, to, n) ==
  SumOver([i \in from..to |-> values[i] \div n], from, to)
    + SumOver([i \in from..to |-> values[i] % n], from, to) \div n

(***************************************************************************)
(* getEMA (dataExtractor.js 566-590): zeros when the series is shorter     *)
(* than the period; otherwise period - 1 zeros, the simple average of the  *)
(* first period prices, then the recurrence.                               *)
(***************************************************************************)
RECURSIVE emaValues(_, _, _)
emaValues(prices, period, i) ==
  IF i < period THEN [j \in 1..i |-> 0]
  ELSE IF i = period
    THEN [j \in 1..period |->
            IF j < period THEN 0 ELSE Average(prices, 1, period, period)]
  ELSE LET previous == emaValues(prices, period, i - 1)
       IN  Append(previous,
                  ((prices[i] - previous[i - 1]) * 2) \div (period + 1)
                    + previous[i - 1])

getEMA(prices, period) ==
  IF Len(prices) < period THEN [j \in 1..Len(prices) |-> 0]
  ELSE emaValues(prices, period, Len(prices))

\* calculateEMA (dataExtractor.js 524-558)
\* a crossover only from strictly below or above
calculateEMAStrictlyBelow(prices) ==
  LET n == Len(prices)
      ema20 == getEMA(prices, 20)
      ema50 == getEMA(prices, 50)
      crossover ==
        IF n >= 52
        THEN IF ema20[n - 1] < ema50[n - 1] /\ ema20[n] > ema50[n]
               THEN "bullish"
             ELSE IF ema20[n - 1] > ema50[n - 1] /\ ema20[n] < ema50[n]
               THEN "bearish"
             ELSE "none"
        ELSE "none"
  IN  [ema20 |-> ema20[n], ema50 |-> ema50[n], crossover |-> crossover]

calculateEMA(prices) ==
  LET n == Len(prices)
      ema20 == getEMA(prices, 20)
      ema50 == getEMA(prices, 50)
      crossover ==
        IF n >= 52
        THEN IF ema20[n - 1] <= ema50[n - 1] /\ ema20[n] > ema50[n]
               THEN "bullish"
             ELSE IF ema20[n - 1] >= ema50[n - 1] /\ ema20[n] < ema50[n]
               THEN "bearish"
             ELSE "none"
        ELSE "none"
  IN  [ema20 |-> ema20[n], ema50 |-> ema50[n], crossover |-> crossover]

\* calculateMACD (dataExtractor.js 597-642)
calculateMACD(prices) ==
  LET n == Len(prices)
  IN  IF n < 26
      THEN [line |-> 0, signal |-> 0, histogram |-> 0, previousHistogram |-> 0]
      ELSE LET ema12 == getEMA(prices, 12)
               ema26 == getEMA(prices, 26)
               macdLine == [i \in 1..n |-> IF i <= 25 THEN 0
                                           ELSE ema12[i] - ema26[i]]
               signalLine == getEMA(macdLine, 9)
               histogram == [i \in 1..n |-> IF i <= 33 THEN 0
                                            ELSE macdLine[i] - signalLine[i]]
           IN  [line |-> macdLine[n], signal |-> signalLine[n],
                histogram |-> histogram[n],
                previousHistogram |-> histogram[n - 1]]

(***************************************************************************)
(* calculateRSI (dataExtractor.js 650-693), period 14.  rs is              *)
(* avgGain / avgLoss and the value 100 - 100 / (1 + rs): with avgLoss 0    *)
(* rs is +Infinity and the value 100 when avgGain > 0, and rs and the      *)
(* value are NaN when avgGain is 0 as well.                                *)
(***************************************************************************)
RECURSIVE smoothed(_, _, _)
smoothed(values, period, i) ==
  IF i = period THEN Average(values, 1, period, period)
  ELSE (smoothed(values, period, i - 1) * (period - 1) + values[i]) \div period

calculateRSI(prices) ==
  LET n == Len(prices)
      period == 14
  IN  IF n < period + 1 THEN [value |-> Whole(50)]
      ELSE LET changes == [i \in 1..(n - 1) |-> prices[i + 1] - prices[i]]
               gains == [i \in 1..(n - 1) |->
                           IF changes[i] > 0 THEN changes[i] ELSE 0]
               losses == [i \in 1..(n - 1) |->
                            IF changes[i] < 0 THEN Abs(changes[i]) ELSE 0]
               avgGain == smoothed(gains, period, n - 1)
               avgLoss == smoothed(losses, period, n - 1)
           IN  [value |->
                  IF avgLoss = 0
                  THEN (IF avgGain = 0 THEN NaN ELSE Whole(100))
                  ELSE LET share == Quotient(avgGain, avgGain + avgLoss)
                       IN  Quotient(100 * share.num, share.den)]

(***************************************************************************)
(* calculateBollingerBands (dataExtractor.js 702-764), period 20 and       *)
(* multiplier 2; only the last window reaches the result.  With sum the    *)
(* sum of the window and squares the sum of (20 * price - sum)^2, the mean *)
(* is sum / 20 and twice the standard deviation sqrt(squares / 2000); the  *)
(* root is resolved to a thousandth.                                       *)
(***************************************************************************)
RECURSIVE rootBetween(_, _, _)
rootBetween(v, low, high) ==
  IF low = high THEN low
  ELSE LET mid == (low + high + 1) \div 2
       IN  IF mid * mid <= v THEN rootBetween(v, mid, high)
           ELSE rootBetween(v, low, mid - 1)

\* the largest r with r * r <= v
sqrtFloor(v) == rootBetween(v, 0, 46340)

\* the lower band tested before the upper one
calculateBollingerBandsLowerFirst(prices) ==
  LET n == Len(prices)
      period == 20
  IN  IF n < period
      THEN [upper |-> 0, middle |-> 0, lower |-> 0, width |-> Whole(0),
            position |-> "middle"]
      ELSE LET window == [j \in 1..period |-> prices[n - period + j] \div Scale]
               sum == SumOver(window, 1, period)
               squares == SumOver([j \in 1..period |->
                                     (period * window[j] - sum)
                                       * (period * window[j] - sum)], 1, period)
               currentSMA == (sum * (Scale \div period))
               twoStdDev == 1000 * sqrtFloor(500 * squares)
               currentUpper == currentSMA + twoStdDev
               currentLower == currentSMA - twoStdDev
               currentPrice == prices[n]
           IN  [upper |-> currentUpper, middle |-> currentSMA,
                lower |-> currentLower,
                width |-> Quotient(currentUpper - currentLower, currentSMA),
                position |-> IF currentPrice <= currentLower THEN "lower"
                             ELSE IF currentPrice >= currentUpper THEN "upper"
                             ELSE "middle"]

calculateBollingerBands(prices) ==
  LET n == Len(prices)
      period == 20
  IN  IF n < period
      THEN [upper |-> 0, middle |-> 0, lower |-> 0, width |-> Whole(0),
            position |-> "middle"]
      ELSE LET window == [j \in 1..period |-> prices[n - period + j] \div Scale]
               sum == SumOver(window, 1, period)
               squares == SumOver([j \in 1..period |->
                                     (period * window[j] - sum)
                                       * (period * window[j] - sum)], 1, period)
               currentSMA == (sum * (Scale \div period))
               twoStdDev == 1000 * sqrtFloor(500 * squares)
               currentUpper == currentSMA + twoStdDev
               currentLower == currentSMA - twoStdDev
               currentPrice == prices[n]
           IN  [upper |-> currentUpper, middle |-> currentSMA,
                lower |-> currentLower,
                width |-> Quotient(currentUpper - currentLower, currentSMA),
                position |-> IF currentPrice >= currentUpper THEN "upper"
                             ELSE IF currentPrice <= currentLower THEN "lower"
                             ELSE "middle"]

(***************************************************************************)
(* analyzeVolume (dataExtractor.js 772-814): the last volume against 1.5   *)
(* and 0.5 times the average of the last 10.                               *)
(***************************************************************************)
analyzeVolume(volumes, prices) ==
  LET n == Len(volumes)
  IN  IF n < 10 THEN [current |-> 0, average |-> 0, trend |-> "stable"]
      ELSE LET sum == SumOver(volumes, n - 9, n)
               currentVolume == volumes[n]
               priceChange == prices[n] - prices[n - 1]
           IN  [current |-> currentVolume * Scale,
                average |-> sum * (Scale \div 10),
                trend |-> IF 20 * currentVolume > 3 * sum
                          THEN (IF priceChange > 0 THEN "increasing"
                                ELSE IF priceChange < 0 THEN "decreasing"
                                ELSE "high")
                          ELSE IF 20 * currentVolume < sum THEN "low"
                          ELSE "stable"]

\* getEmptyIndicators (dataExtractor.js 509-517)
getEmptyIndicators ==
  [ema |-> [ema20 |-> 0, ema50 |-> 0, crossover |-> "none"],
   macd |-> [line |-> 0, signal |-> 0, histogram |-> 0, previousHistogram |-> 0],
   rsi |-> [value |-> Whole(50)],
   bb |-> [upper |-> 0, middle |-> 0, lower |-> 0, width |-> Whole(0),
           position |-> "middle"],
   volume |-> [current |-> 0, average |-> 0, trend |-> "stable"]]

\* calculateAllIndicators (dataExtractor.js 474-503)
calculateAllIndicators(candles) ==
  IF Len(candles) < 30 THEN getEmptyIndicators
  ELSE LET closes == closesOf(candles)
           volumes == volumesOf(candles)
       IN  [ema |-> calculateEMA(closes),
            macd |-> calculateMACD(closes),
            rsi |-> calculateRSI(closes),
            bb |-> calculateBollingerBands(closes),
            volume |-> analyzeVolume(volumes, closes)]

(***************************************************************************)
(* isValidCandle and normalizeCandleData (dataExtractor.js 350-431): a     *)
(* candle is kept when none of open, high, low and close is undefined or   *)
(* NaN; every other candle is left out of the series that is returned.     *)
(* A candle of the model carries its numbers, so the test is on the        *)
(* presence of the four fields.                                            *)
(***************************************************************************)
isValidCandle(candle) ==
  {"open", "high", "low", "close"} \subseteq DOMAIN candle

normalizeCandleData(data) == SelectSeq(data, isValidCandle)

(***************************************************************************)
(* Candle series.  A series is a sequence of candles; the state holds a    *)
(* series as [series |-> its index in CandleSeriesCatalog].  All have 60   *)
(* candles.  Two satisfy low <= min(open, close) <= max(open, close) <=    *)
(* high throughout: a clean uptrend (each close the previous close + 1,    *)
(* constant volume) and a clean downtrend.  The third is the uptrend with  *)
(* one candle whose high lies below its low.                               *)
(***************************************************************************)
UptrendSeries ==
  [i \in 1..60 |-> [timestamp |-> i, open |-> 99 + i, high |-> 100 + i,
                    low |-> 99 + i, close |-> 100 + i, volume |-> 10]]

DowntrendSeries ==
  [i \in 1..60 |-> [timestamp |-> i, open |-> 201 - i, high |-> 201 - i,
                    low |-> 200 - i, close |-> 200 - i, volume |-> 10]]

BrokenCandleSeries ==
  [UptrendSeries EXCEPT ![30] = [timestamp |-> 30, open |-> 129, high |-> 120,
                                 low |-> 135, close |-> 130, volume |-> 10]]

CandleSeriesCatalog == <<UptrendSeries, DowntrendSeries, BrokenCandleSeries>>

SeriesIds == DOMAIN CandleSeriesCatalog

(***************************************************************************)
(* Indicator snapshots a context may answer 'calculateIndicators' with.    *)
(* EmptyIndicators is getEmptyIndicators (dataExtractor.js 509-517).       *)
(***************************************************************************)
EmptyIndicators == getEmptyIndicators

BullishIndicators ==
  [ema |-> [ema20 |-> 120, ema50 |-> 110, crossover |-> "bullish"],
   macd |-> [line |-> 3, signal |-> 2, histogram |-> 1, previousHistogram |-> 0],
   rsi |-> [value |-> Whole(25)],
   bb |-> [upper |-> 130, middle |-> 120, lower |-> 110, width |-> Quotient(20, 120),
           position |-> "lower"],
   volume |-> [current |-> 20, average |-> 10, trend |-> "increasing"]]

IndicatorSnapshots == {EmptyIndicators, BullishIndicators}

\* what the indicator library computes for each series of the catalog
CatalogIndicators ==
  [s \in SeriesIds |-> calculateAllIndicators(CandleSeriesCatalog[s])]

(***************************************************************************)
(* Replies to the 'calculateIndicators' message (background.js 63-68).     *)
(* The popup's listener answers every action it does not know with         *)
(* {success: false, error: 'Unknown action'} (part_000 1197-1199); a       *)
(* context that implements the handler answers {indicators}, with a        *)
(* snapshot of its own or with what calculateAllIndicators computes for    *)
(* the series of the request.                                              *)
(***************************************************************************)
UnknownActionResponse == [success |-> FALSE, error |-> "Unknown action"]

IndicatorResponses ==
  {UnknownActionResponse} \cup {[indicators |-> i] : i \in IndicatorSnapshots}

indicatorResponsesTo(request) ==
  IF request.pc = "awaitIndicators"
  THEN IndicatorResponses
         \cup {[indicators |-> CatalogIndicators[request.candleData.series]]}
  ELSE {}

\* response.indicators
responseIndicators(response) ==
  IF "indicators" \in DOMAIN response THEN response.indicators ELSE Undefined

(***************************************************************************)
(* The external predictor's reply: the JSON value of the HTTP body.        *)
(*   noCandidates   result.candidates[0] does not exist: a TypeError       *)
(*   noJsonObject   the text holds no {...}: jsonMatch is null             *)
(*   badJson        the text holds {...} that JSON.parse rejects           *)
(*   json           the text holds a JSON object, obj                      *)
(* A confidence is in hundredths; obj may lack either field.               *)
(***************************************************************************)
JsonObjects ==
  {[note |-> "x"],
   [note |-> "x", prediction |-> "up"],
   [note |-> "x", confidence |-> 90],
   [note |-> "x", prediction |-> "down", confidence |-> 0],
   [note |-> "x", prediction |-> "up", confidence |-> 80],
   [note |-> "x", prediction |-> "up", confidence |-> 150],
   [note |-> "x", prediction |-> "down", confidence |-> -20]}

PredictorBodies ==
  {[kind |-> "noCandidates"], [kind |-> "noJsonObject"], [kind |-> "badJson"]}
    \cup {[kind |-> "json", obj |-> o] : o \in JsonObjects}

\* aiResponse.prediction || 'neutral' and aiResponse.confidence || 0.5
replyPrediction(obj) ==
  IF "prediction" \in DOMAIN obj /\ obj.prediction # ""
  THEN obj.prediction ELSE "neutral"

replyConfidence(obj) ==
  IF "confidence" \in DOMAIN obj /\ obj.confidence # 0 THEN obj.confidence ELSE 50

\* background.js 76, 132, 135: the fixed estimate of the background script
PlaceholderPrediction == [prediction |-> "neutral", confidence |-> 50]

(***************************************************************************)
(* getAIPrediction of the background script (background.js 73-137), from   *)
(* the point where the body has been read: lines 117-132.                  *)
(***************************************************************************)
backgroundPredictionFromBody(body) ==
  IF body.kind = "json"
  THEN [prediction |-> replyPrediction(body.obj),
        confidence |-> replyConfidence(body.obj)]
  ELSE PlaceholderPrediction


(***************************************************************************)
(* trackSignalAccuracy (background.js 231-244): the counters after the     *)
(* call and the value returned, (correctSignals / totalSignals) * 100,     *)
(* held as the fraction num / den.                                         *)
(***************************************************************************)
ZeroStats == [totalSignals |-> 0, correctSignals |-> 0]

\* every win counted as correct, a neutral signal's too
trackSignalAccuracyAnyWin(stats, sigType, result) ==
  LET total == stats.totalSignals + 1
      correct == IF result = "win" THEN stats.correctSignals + 1
                 ELSE stats.correctSignals
  IN  [stats |-> [totalSignals |-> total, correctSignals |-> correct],
       accuracy |-> [num |-> correct * 100, den |-> total]]

\* the ratio returned without the factor 100
trackSignalAccuracyAsRatio(stats, sigType, result) ==
  LET total == stats.totalSignals + 1
      correct == IF (sigType = "buy" /\ result = "win")
                    \/ (sigType = "sell" /\ result = "win")
                 THEN stats.correctSignals + 1
                 ELSE stats.correctSignals
  IN  [stats |-> [totalSignals |-> total, correctSignals |-> correct],
       accuracy |-> [num |-> correct, den |-> total]]

trackSignalAccuracy(stats, sigType, result) ==
  LET total == stats.totalSignals + 1
      correct == IF (sigType = "buy" /\ result = "win")
                    \/ (sigType = "sell" /\ result = "win")
                 THEN stats.correctSignals + 1
                 ELSE stats.correctSignals
  IN  [stats |-> [totalSignals |-> total, correctSignals |-> correct],
       accuracy |-> [num |-> correct * 100, den |-> total]]

(***************************************************************************)
(* The state.                                                              *)
(***************************************************************************)
VARIABLES
  isActive,           \* background state.isActive
  selectedTimeframe,  \* background state.selectedTimeframe
  signals,            \* background state.signals: timeframe -> stored signal
  candleData,         \* background state.candleData: timeframe -> series
  accuracyStats,      \* background state.accuracyStats
  GEMINI_API_KEY,     \* the predictor's key: "" when none is configured
  storage,            \* chrome.storage.local, key accuracyStats
  restore,            \* the storage.get of onInstalled: phase and result
  evals,              \* the newCandleData requests: each processData run
  outbox,             \* 'signalUpdated' messages sent by notifySignalUpdate
  handled,            \* trackSignalResult messages handled so far
  base,               \* the counters as construction or the restore set them
  lastRecord,         \* the last two trackSignalResult requests handled
  trackResponse,      \* the response to the last trackSignalResult
  call,               \* a direct call of a pure function: input and result
  content,            \* the content script: its state and what its overlay shows
  popup,              \* the popup: its state and what it displays
  channel             \* the messages and replies in flight between the three

bgVars == <<isActive, selectedTimeframe, signals, candleData>>
trackerVars == <<accuracyStats, storage, handled, base, lastRecord, trackResponse>>
vars == <<isActive, selectedTimeframe, signals, candleData, accuracyStats,
          GEMINI_API_KEY, storage, restore, evals, outbox, handled, base,
          lastRecord, trackResponse, call, content, popup, channel>>

NoCall == [fn |-> "none"]

IdleEval == [pc |-> "idle"]

\* what a previous session may have left in storage: every set follows an increment
StoredStats ==
  {Undefined} \cup
  {st \in [totalSignals : 1..MaxStored, correctSignals : 0..MaxStored] :
     st.correctSignals <= st.totalSignals}

\* background.js 12-21 and 25
(***************************************************************************)
(* The content script (part_000 1-484) and the popup (part_000 813-1204)   *)
(* as they are once loaded: each has run its initialize(), so its          *)
(* 'getState' request is on the way to the background script.  A message   *)
(* channel keeps the order of what one context sends to another; nothing   *)
(* orders the messages of different channels.                              *)
(***************************************************************************)
NoOverlay == [none |-> TRUE]

ContentLoaded ==
  [isActive |-> FALSE, currentTimeframe |-> "M1", observingChart |-> FALSE,
   started |-> FALSE, lastExtraction |-> Null, overlay |-> NoOverlay,
   sent |-> 0, answered |-> {}]

PopupLoaded ==
  [isActive |-> FALSE, selectedTimeframe |-> "M1", display |-> "initial"]

ChannelAtLoad ==
  [contentToBackground |-> <<[action |-> "getState"]>>,
   popupToBackground |-> <<[action |-> "getState"]>>,
   popupToContent |-> <<>>,
   repliesToContent |-> <<>>,
   repliesToPopup |-> <<>>]

MachineInit ==
  /\ isActive = FALSE
  /\ selectedTimeframe = "M1"
  /\ signals = [t \in TIMEFRAMES |-> Undefined]
  /\ candleData = [t \in TIMEFRAMES |-> Undefined]
  /\ accuracyStats = ZeroStats
  /\ GEMINI_API_KEY \in {"", "key"}
  /\ storage \in StoredStats
  /\ restore = [phase |-> "none", result |-> Undefined]
  /\ evals = [e \in Evals |-> IdleEval]
  /\ outbox = {}
  /\ handled = 0
  /\ base = ZeroStats
  /\ lastRecord = <<>>
  /\ trackResponse = NoResponse
  /\ content = ContentLoaded
  /\ popup = PopupLoaded
  /\ channel = ChannelAtLoad

Init == MachineInit /\ call = NoCall


(***************************************************************************)
(* processData (background.js 28-57) from the point where the directional  *)
(* estimate is known, lines 39-56, and the .then of the listener (261-263).*)
(* With indicators undefined the destructuring in generateSignal throws    *)
(* a TypeError: the catch returns null, nothing is stored or notified.     *)
(* The stored signal is the signal with its indicators (the timestamp,     *)
(* Date.now(), is left out).  These steps are one task: no other handler   *)
(* runs between the resumption of processData and sendResponse.  via       *)
(* records how the estimate was obtained: "noKey", a failure of the call   *)
(* ("fetchRejected", "httpNotOk", "bodyNotJson", "noCandidates",           *)
(* "noJsonObject", "badJson") or "reply".                                  *)
(***************************************************************************)
processDataResult(indicators, aiAnalysis) ==
  IF IsUndefined(indicators) THEN Null ELSE generateSignal(indicators, aiAnalysis)

storedSignal(signal, indicators) == [signal |-> signal, indicators |-> indicators]

\* the signal stored under the selected timeframe
FinishProcessDataUnderSelected(e, indicators, aiAnalysis, via) ==
  LET signal == processDataResult(indicators, aiAnalysis)
      timeframe == evals[e].timeframe
  IN  /\ signals' = IF IsNull(signal) THEN signals
                    ELSE [signals EXCEPT ![selectedTimeframe] = storedSignal(signal, indicators)]
      /\ outbox' = IF IsNull(signal) THEN outbox
                   ELSE outbox \cup {[action |-> "signalUpdated",
                                      timeframe |-> timeframe,
                                      signal |-> storedSignal(signal, indicators)]}
      /\ evals' = [evals EXCEPT ![e] =
                     [pc |-> "done", timeframe |-> timeframe,
                      candleData |-> evals[e].candleData,
                      indicators |-> indicators, aiAnalysis |-> aiAnalysis,
                      via |-> via,
                      response |-> [success |-> TRUE, signal |-> signal]]]

FinishProcessData(e, indicators, aiAnalysis, via) ==
  LET signal == processDataResult(indicators, aiAnalysis)
      timeframe == evals[e].timeframe
  IN  /\ signals' = IF IsNull(signal) THEN signals
                    ELSE [signals EXCEPT ![timeframe] = storedSignal(signal, indicators)]
      /\ outbox' = IF IsNull(signal) THEN outbox
                   ELSE outbox \cup {[action |-> "signalUpdated",
                                      timeframe |-> timeframe,
                                      signal |-> storedSignal(signal, indicators)]}
      /\ evals' = [evals EXCEPT ![e] =
                     [pc |-> "done", timeframe |-> timeframe,
                      candleData |-> evals[e].candleData,
                      indicators |-> indicators, aiAnalysis |-> aiAnalysis,
                      via |-> via,
                      response |-> [success |-> TRUE, signal |-> signal]]]

(***************************************************************************)
(* onMessage 'newCandleData' (background.js 259-268) up to the first       *)
(* await of processData: the series is stored and 'calculateIndicators'    *)
(* is sent (28-34, 60-65).                                                 *)
(***************************************************************************)
ReceiveNewCandleData(e, timeframe, series) ==
  /\ evals[e].pc = "idle"
  /\ \A d \in Evals : d < e => evals[d].pc # "idle"
  /\ candleData' = [candleData EXCEPT ![timeframe] = [series |-> series]]
  /\ evals' = [evals EXCEPT ![e] =
                 [pc |-> "awaitIndicators", timeframe |-> timeframe,
                  candleData |-> [series |-> series], indicators |-> Undefined,
                  aiAnalysis |-> Undefined, via |-> "none",
                  response |-> NoResponse]]
  /\ UNCHANGED <<isActive, selectedTimeframe, signals, accuracyStats,
                 GEMINI_API_KEY, content, popup, channel, storage, restore, outbox, handled, base,
                 lastRecord, trackResponse, call>>

(***************************************************************************)
(* The callback of calculateIndicators (background.js 66-68) when no       *)
(* context received the message: it is called with response undefined,     *)
(* response.indicators throws inside the callback and the promise is       *)
(* never resolved, so processData stays at its first await.                *)
(***************************************************************************)
IndicatorsNoReceiver(e) ==
  /\ evals[e].pc = "awaitIndicators"
  /\ evals' = [evals EXCEPT ![e].pc = "stalled"]
  /\ UNCHANGED <<isActive, selectedTimeframe, signals, candleData, accuracyStats,
                 GEMINI_API_KEY, content, popup, channel, storage, restore, outbox, handled, base,
                 lastRecord, trackResponse, call>>

(***************************************************************************)
(* The callback of calculateIndicators with a response: the promise        *)
(* resolves with response.indicators and processData runs on into          *)
(* getAIPrediction (background.js 73-109): without a key the placeholder   *)
(* is returned at once, with a key the request is sent.                    *)
(***************************************************************************)
IndicatorsReplied(e, response) ==
  /\ evals[e].pc = "awaitIndicators"
  /\ IF GEMINI_API_KEY = ""
     THEN FinishProcessData(e, responseIndicators(response), PlaceholderPrediction,
                            "noKey")
     ELSE /\ evals' = [evals EXCEPT ![e].pc = "awaitFetch",
                                    ![e].indicators = responseIndicators(response)]
          /\ UNCHANGED <<signals, outbox>>
  /\ UNCHANGED <<isActive, selectedTimeframe, candleData, accuracyStats,
                 GEMINI_API_KEY, content, popup, channel, storage, restore, handled, base,
                 lastRecord, trackResponse, call>>

\* fetch rejects (a network error): the outer catch, background.js 133-136
FetchRejects(e) ==
  /\ evals[e].pc = "awaitFetch"
  /\ FinishProcessData(e, evals[e].indicators, PlaceholderPrediction,
                       "fetchRejected")
  /\ UNCHANGED <<isActive, selectedTimeframe, candleData, accuracyStats,
                 GEMINI_API_KEY, content, popup, channel, storage, restore, handled, base,
                 lastRecord, trackResponse, call>>

\* fetch resolves with a status that is not OK: background.js 111-113, 133-136
FetchNotOk(e) ==
  /\ evals[e].pc = "awaitFetch"
  /\ FinishProcessData(e, evals[e].indicators, PlaceholderPrediction,
                       "httpNotOk")
  /\ UNCHANGED <<isActive, selectedTimeframe, candleData, accuracyStats,
                 GEMINI_API_KEY, content, popup, channel, storage, restore, handled, base,
                 lastRecord, trackResponse, call>>

\* fetch resolves OK: response.json() is awaited, background.js 115
FetchOk(e) ==
  /\ evals[e].pc = "awaitFetch"
  /\ evals' = [evals EXCEPT ![e].pc = "awaitJson"]
  /\ UNCHANGED <<isActive, selectedTimeframe, signals, candleData, accuracyStats,
                 GEMINI_API_KEY, content, popup, channel, storage, restore, outbox, handled, base,
                 lastRecord, trackResponse, call>>

(***************************************************************************)
(* The request is never answered: fetch neither resolves nor rejects.      *)
(* background.js 84-109 passes no signal and sets no timer, so nothing     *)
(* resumes processData.                                                    *)
(***************************************************************************)
FetchNeverSettles(e) ==
  /\ evals[e].pc = "awaitFetch"
  /\ evals' = [evals EXCEPT ![e].pc = "fetchPending"]
  /\ UNCHANGED <<isActive, selectedTimeframe, signals, candleData, accuracyStats,
                 GEMINI_API_KEY, content, popup, channel, storage, restore, outbox, handled, base,
                 lastRecord, trackResponse, call>>

\* response.json() rejects (the body is not JSON): background.js 115, 133-136
JsonRejects(e) ==
  /\ evals[e].pc = "awaitJson"
  /\ FinishProcessData(e, evals[e].indicators, PlaceholderPrediction,
                       "bodyNotJson")
  /\ UNCHANGED <<isActive, selectedTimeframe, candleData, accuracyStats,
                 GEMINI_API_KEY, content, popup, channel, storage, restore, handled, base,
                 lastRecord, trackResponse, call>>

\* response.json() resolves: background.js 115-132
JsonResolves(e, body) ==
  /\ evals[e].pc = "awaitJson"
  /\ FinishProcessData(e, evals[e].indicators, backgroundPredictionFromBody(body),
                       IF body.kind = "json" THEN "reply" ELSE body.kind)
  /\ UNCHANGED <<isActive, selectedTimeframe, candleData, accuracyStats,
                 GEMINI_API_KEY, content, popup, channel, storage, restore, handled, base,
                 lastRecord, trackResponse, call>>


(***************************************************************************)
(* onMessage 'trackSignalResult' (background.js 274-280): the counters     *)
(* are updated, written to storage (240) and the accuracy is answered.     *)
(* handled, base and lastRecord observe the run: the number of requests    *)
(* handled, the counters the first of them found, and the last two         *)
(* requests.                                                               *)
(***************************************************************************)
SignalTypes == {"buy", "sell", "neutral"}
Outcomes == {"win", "loss"}

lastTwo(log) == IF Len(log) <= 2 THEN log ELSE SubSeq(log, Len(log) - 1, Len(log))

TrackSignalResult(sigType, result) ==
  /\ handled < MaxRecords
  /\ LET r == trackSignalAccuracy(accuracyStats, sigType, result)
     IN  /\ accuracyStats' = r.stats
         /\ storage' = r.stats
         /\ trackResponse' = [success |-> TRUE, accuracy |-> r.accuracy]
  /\ handled' = handled + 1
  /\ base' = IF handled = 0 THEN accuracyStats ELSE base
  /\ lastRecord' = lastTwo(Append(lastRecord, [signalType |-> sigType,
                                               result |-> result]))
  /\ UNCHANGED <<isActive, selectedTimeframe, signals, candleData,
                 GEMINI_API_KEY, content, popup, channel, restore, evals, outbox, call>>

(***************************************************************************)
(* onInstalled (background.js 288-297): chrome.storage.local.get is        *)
(* issued, the storage is read at some later moment, and the callback      *)
(* runs later still as a task of its own.                                  *)
(***************************************************************************)
OnInstalled ==
  /\ restore.phase = "none"
  /\ restore' = [restore EXCEPT !.phase = "requested"]
  /\ UNCHANGED <<isActive, selectedTimeframe, signals, candleData, accuracyStats,
                 GEMINI_API_KEY, content, popup, channel, storage, evals, outbox, handled, base,
                 lastRecord, trackResponse, call>>

StorageGetReads ==
  /\ restore.phase = "requested"
  /\ restore' = [phase |-> "read", result |-> storage]
  /\ UNCHANGED <<isActive, selectedTimeframe, signals, candleData, accuracyStats,
                 GEMINI_API_KEY, content, popup, channel, storage, evals, outbox, handled, base,
                 lastRecord, trackResponse, call>>

\* background.js 290-294
restoredStats(stats, result) == IF IsUndefined(result) THEN stats ELSE result

StorageGetCallback ==
  /\ restore.phase = "read"
  /\ restore' = [restore EXCEPT !.phase = "done"]
  /\ accuracyStats' = restoredStats(accuracyStats, restore.result)
  /\ UNCHANGED <<isActive, selectedTimeframe, signals, candleData,
                 GEMINI_API_KEY, content, popup, channel, storage, evals, outbox, handled, base,
                 lastRecord, trackResponse, call>>

\* onMessage 'toggleActive' (background.js 249-252)
ToggleActive(active) ==
  /\ isActive' = active
  /\ UNCHANGED <<selectedTimeframe, signals, candleData, accuracyStats,
                 GEMINI_API_KEY, content, popup, channel, storage, restore, evals, outbox, handled, base,
                 lastRecord, trackResponse, call>>

\* onMessage 'setTimeframe' (background.js 254-257)
SetTimeframe(timeframe) ==
  /\ selectedTimeframe' = timeframe
  /\ UNCHANGED <<isActive, signals, candleData, accuracyStats,
                 GEMINI_API_KEY, content, popup, channel, storage, restore, evals, outbox, handled, base,
                 lastRecord, trackResponse, call>>

(***************************************************************************)
(* The background script.                                                  *)
(***************************************************************************)
EvalStep(e) ==
  \/ IndicatorsNoReceiver(e)
  \/ \E response \in indicatorResponsesTo(evals[e]) : IndicatorsReplied(e, response)
  \/ FetchRejects(e)
  \/ FetchNotOk(e)
  \/ FetchOk(e)
  \/ FetchNeverSettles(e)
  \/ JsonRejects(e)
  \/ \E body \in PredictorBodies : JsonResolves(e, body)

Next ==
  \/ \E e \in Evals, timeframe \in TIMEFRAMES, series \in SeriesIds :
       ReceiveNewCandleData(e, timeframe, series)
  \/ \E e \in Evals : EvalStep(e)
  \/ \E sigType \in SignalTypes, result \in Outcomes :
       TrackSignalResult(sigType, result)
  \/ OnInstalled
  \/ StorageGetReads
  \/ StorageGetCallback
  \/ \E active \in BOOLEAN : ToggleActive(active)
  \/ \E timeframe \in TIMEFRAMES : SetTimeframe(timeframe)

Spec == Init /\ [][Next]_vars

(***************************************************************************)
(* The evaluation pipeline: the newCandleData requests, after a fresh      *)
(* install (nothing persisted).  Its behaviours are behaviours of Spec.    *)
(***************************************************************************)
PipelineInit == Init /\ storage = Undefined

PipelineNext ==
  \/ \E e \in Evals, timeframe \in TIMEFRAMES, series \in SeriesIds :
       ReceiveNewCandleData(e, timeframe, series)
  \/ \E e \in Evals : EvalStep(e)

PipelineSpec == PipelineInit /\ [][PipelineNext]_vars

(***************************************************************************)
(* The event loop runs every task that is ready: a message that was sent   *)
(* is delivered, a callback whose result is there is called.  A fetch that *)
(* was sent settles or never settles (FetchNeverSettles).                  *)
(***************************************************************************)
FairPipelineSpec == PipelineSpec /\ \A e \in Evals : WF_vars(EvalStep(e))

(***************************************************************************)
(* The accuracy tracker: the trackSignalResult messages and the restore    *)
(* of the persisted stats, interleaved with one newCandleData evaluation.  *)
(* Its behaviours are behaviours of Spec.                                  *)
(***************************************************************************)
TrackerNext ==
  \/ \E sigType \in SignalTypes, result \in Outcomes :
       TrackSignalResult(sigType, result)
  \/ OnInstalled
  \/ StorageGetReads
  \/ StorageGetCallback
  \/ ReceiveNewCandleData(1, "M1", 1)
  \/ EvalStep(1)

TrackerSpec == Init /\ [][TrackerNext]_vars


(***************************************************************************)
(* The extension as a whole: the background script, the content script of  *)
(* the trading page and the popup, exchanging messages.  Who answers       *)
(* 'calculateIndicators' is as in the pipeline above.                      *)
(***************************************************************************)
\* messages one channel holds at a time
MaxInFlight == 1

\* 'newCandleData' requests the content script sends in one run
MaxRequests == 1

\* what the chart yields to extractDataFromWindowObject / extractDataFromDOM
ExtractedSeries == {1}

\* the timeframes the page and the popup are switched between
SwitchedTimeframes == {"M1", "M5"}

\* 'calculateIndicators' answered by the popup's listener (part_000 1183-1201,
\* default case) or with the indicators of the request's series
ExtensionIndicatorResponses(request) ==
  indicatorResponsesTo(request)
    \ {[indicators |-> i] : i \in IndicatorSnapshots}

ExtractionOutcomes(c) ==
  {Null} \cup (IF c.sent < MaxRequests
               THEN {[series |-> s] : s \in ExtractedSeries} ELSE {})

Extracted == [at |-> "Date.now()"]

(***************************************************************************)
(* extractCandleData (part_000 62-106): nothing within extractionInterval  *)
(* of the last extraction (elapsed tells whether that time has passed);    *)
(* otherwise the candles found, if any, are sent as 'newCandleData' with   *)
(* the current timeframe.  There is no test of state.isActive.             *)
(***************************************************************************)
extractCandleData(c, elapsed, outcome) ==
  IF ~IsNull(c.lastExtraction) /\ ~elapsed
  THEN [content |-> c, sends |-> <<>>]
  ELSE IF IsNull(outcome)
  THEN [content |-> [c EXCEPT !.lastExtraction = Extracted], sends |-> <<>>]
  ELSE [content |-> [c EXCEPT !.lastExtraction = Extracted, !.sent = @ + 1],
        sends |-> <<[action |-> "newCandleData",
                     timeframe |-> c.currentTimeframe,
                     series |-> outcome.series]>>]

\* updateSignalOverlay (part_000 360-429): the label is the current timeframe
updateSignalOverlay(c, signal) ==
  IF IsNull(signal) \/ ~c.observingChart THEN c
  ELSE [c EXCEPT !.overlay = [timeframe |-> c.currentTimeframe, signal |-> signal]]

(***************************************************************************)
(* The onMessage listener of the background script (background.js          *)
(* 247-285) for the next message of a sender.  'toggleActive' and          *)
(* 'setTimeframe' are sent without a callback, so their responses go       *)
(* nowhere; the response to 'newCandleData' is sent when processData has   *)
(* finished (ContentResponseCallback).                                     *)
(***************************************************************************)
BackgroundOnMessage(sender) ==
  LET queue == IF sender = "content" THEN channel.contentToBackground
               ELSE channel.popupToBackground
      request == Head(queue)
      rest == IF sender = "content"
              THEN [channel EXCEPT !.contentToBackground = Tail(queue)]
              ELSE [channel EXCEPT !.popupToBackground = Tail(queue)]
      sendResponse(response) ==
        IF sender = "content"
        THEN [rest EXCEPT !.repliesToContent =
                Append(@, [to |-> request.action, response |-> response])]
        ELSE [rest EXCEPT !.repliesToPopup =
                Append(@, [to |-> request.action, response |-> response])]
      e == CHOOSE e \in Evals :
             evals[e].pc = "idle" /\ \A d \in Evals : d < e => evals[d].pc # "idle"
  IN  /\ queue # <<>>
      /\ CASE request.action = "toggleActive" ->
                /\ isActive' = request.isActive
                /\ channel' = rest
                /\ UNCHANGED <<selectedTimeframe, candleData, evals>>
           [] request.action = "setTimeframe" ->
                /\ selectedTimeframe' = request.timeframe
                /\ channel' = rest
                /\ UNCHANGED <<isActive, candleData, evals>>
           [] request.action = "newCandleData" ->
                /\ candleData' = [candleData EXCEPT ![request.timeframe] =
                                    [series |-> request.series]]
                /\ evals' = [evals EXCEPT ![e] =
                               [pc |-> "awaitIndicators",
                                timeframe |-> request.timeframe,
                                candleData |-> [series |-> request.series],
                                indicators |-> Undefined,
                                aiAnalysis |-> Undefined, via |-> "none",
                                response |-> NoResponse]]
                /\ channel' = rest
                /\ UNCHANGED <<isActive, selectedTimeframe>>
           [] request.action = "getState" ->
                /\ channel' = sendResponse(
                     [success |-> TRUE,
                      state |-> [isActive |-> isActive,
                                 selectedTimeframe |-> selectedTimeframe]])
                /\ UNCHANGED <<isActive, selectedTimeframe, candleData, evals>>
           [] OTHER ->
                /\ channel' = sendResponse(UnknownActionResponse)
                /\ UNCHANGED <<isActive, selectedTimeframe, candleData, evals>>
      /\ UNCHANGED <<signals, accuracyStats, GEMINI_API_KEY, storage, restore,
                     outbox, handled, base, lastRecord, trackResponse, call,
                     content, popup>>

bgUnchanged ==
  UNCHANGED <<isActive, selectedTimeframe, signals, candleData, accuracyStats,
              GEMINI_API_KEY, storage, restore, evals, outbox, handled, base,
              lastRecord, trackResponse, call>>

\* the callback of the content script's 'getState' (part_000 470-480)
ContentGetStateCallback ==
  /\ channel.repliesToContent # <<>>
  /\ LET reply == Head(channel.repliesToContent)
     IN  /\ reply.to = "getState"
         /\ content' = IF reply.response.success
                       THEN [content EXCEPT
                               !.isActive = reply.response.state.isActive,
                               !.currentTimeframe =
                                 reply.response.state.selectedTimeframe,
                               !.started = TRUE]
                       ELSE content
  /\ channel' = [channel EXCEPT !.repliesToContent = Tail(@)]
  /\ UNCHANGED popup
  /\ bgUnchanged

\* the MutationObserver callback when the chart appears (part_000 25-35, 49-59)
ChartDetected(elapsed, outcome) ==
  /\ content.started
  /\ ~content.observingChart
  /\ Len(channel.contentToBackground) < MaxInFlight
  /\ LET extraction == extractCandleData(content, elapsed, outcome)
     IN  /\ content' = [extraction.content EXCEPT !.observingChart = TRUE]
         /\ channel' = [channel EXCEPT !.contentToBackground = @ \o extraction.sends]
  /\ UNCHANGED popup
  /\ bgUnchanged

\* the interval of initializeExtraction (part_000 54-58)
ExtractionInterval(elapsed, outcome) ==
  /\ content.observingChart
  /\ content.isActive
  /\ Len(channel.contentToBackground) < MaxInFlight
  /\ LET extraction == extractCandleData(content, elapsed, outcome)
     IN  /\ content' = extraction.content
         /\ channel' = [channel EXCEPT !.contentToBackground = @ \o extraction.sends]
  /\ UNCHANGED popup
  /\ bgUnchanged

\* checkTimeframe (part_000 235-272) when the page shows another timeframe
CheckTimeframe(newTimeframe, elapsed, outcome) ==
  /\ content.started
  /\ newTimeframe # content.currentTimeframe
  /\ channel.contentToBackground = <<>>
  /\ LET changed == [content EXCEPT !.currentTimeframe = newTimeframe]
         extraction == extractCandleData(changed, elapsed, outcome)
     IN  /\ content' = extraction.content
         /\ channel' = [channel EXCEPT !.contentToBackground =
                          <<[action |-> "setTimeframe", timeframe |-> newTimeframe]>>
                            \o extraction.sends]
  /\ UNCHANGED popup
  /\ bgUnchanged

\* the content script's listener, case 'toggleActive' (part_000 450-458)
ContentOnToggleActive(elapsed, outcome) ==
  /\ channel.popupToContent # <<>>
  /\ Len(channel.contentToBackground) < MaxInFlight
  /\ LET request == Head(channel.popupToContent)
         toggled == [content EXCEPT !.isActive = request.isActive]
         extraction == IF toggled.isActive
                       THEN extractCandleData(toggled, elapsed, outcome)
                       ELSE [content |-> toggled, sends |-> <<>>]
     IN  /\ content' = extraction.content
         /\ channel' = [channel EXCEPT
                          !.popupToContent = Tail(@),
                          !.contentToBackground = @ \o extraction.sends]
  /\ UNCHANGED popup
  /\ bgUnchanged

\* the callback of 'newCandleData' (part_000 93-99) for the e-th request
ContentResponseCallback(e) ==
  /\ evals[e].pc = "done"
  /\ e \notin content.answered
  /\ content' = [(IF evals[e].response.success
                  THEN updateSignalOverlay(content, evals[e].response.signal)
                  ELSE content)
                 EXCEPT !.answered = @ \cup {e}]
  /\ UNCHANGED <<popup, channel>>
  /\ bgUnchanged

\* the callback of the popup's 'getState': the state, then updateUI (854-866, 923-949)
PopupGetStateCallback ==
  /\ channel.repliesToPopup # <<>>
  /\ LET reply == Head(channel.repliesToPopup)
     IN  /\ reply.to = "getState"
         /\ popup' = [popup EXCEPT
                        !.isActive = reply.response.state.isActive,
                        !.selectedTimeframe = reply.response.state.selectedTimeframe]
         /\ channel' = [channel EXCEPT
                          !.repliesToPopup = Tail(@),
                          !.popupToBackground =
                            Append(@, [action |-> "getSignal",
                                       timeframe |->
                                         reply.response.state.selectedTimeframe])]
  /\ UNCHANGED content
  /\ bgUnchanged

\* the callback of 'getSignal' in updateUI (part_000 943-949)
PopupGetSignalCallback ==
  /\ channel.repliesToPopup # <<>>
  /\ LET reply == Head(channel.repliesToPopup)
     IN  /\ reply.to = "getSignal"
         /\ popup' = [popup EXCEPT !.display =
                        IF reply.response.success THEN "signal" ELSE "noSignal"]
  /\ channel' = [channel EXCEPT !.repliesToPopup = Tail(@)]
  /\ UNCHANGED content
  /\ bgUnchanged

\* the 'change' listener of the activate toggle (part_000 878-896)
PopupToggle ==
  /\ Len(channel.popupToBackground) < MaxInFlight
  /\ Len(channel.popupToContent) < MaxInFlight
  /\ popup' = [popup EXCEPT !.isActive = ~popup.isActive]
  /\ channel' = [channel EXCEPT
                   !.popupToBackground =
                     Append(@, [action |-> "toggleActive",
                                isActive |-> ~popup.isActive]),
                   !.popupToContent =
                     Append(@, [action |-> "toggleActive",
                                isActive |-> ~popup.isActive])]
  /\ UNCHANGED content
  /\ bgUnchanged

\* the 'click' listener of a timeframe button (part_000 899-920)
PopupTimeframeButton(timeframe) ==
  /\ Len(channel.popupToBackground) < MaxInFlight
  /\ popup' = [popup EXCEPT !.selectedTimeframe = timeframe,
                            !.display = "loading"]
  /\ channel' = [channel EXCEPT !.popupToBackground =
                   Append(@, [action |-> "setTimeframe", timeframe |-> timeframe])]
  /\ UNCHANGED content
  /\ bgUnchanged

ExtensionInit ==
  /\ Init
  /\ GEMINI_API_KEY = ""
  /\ storage = Undefined

ExtensionNext ==
  \/ \E sender \in {"content", "popup"} : BackgroundOnMessage(sender)
  \/ \E e \in Evals : IndicatorsNoReceiver(e)
  \/ \E e \in Evals :
       \E response \in ExtensionIndicatorResponses(evals[e]) :
         IndicatorsReplied(e, response)
  \/ ContentGetStateCallback
  \/ \E elapsed \in BOOLEAN, outcome \in ExtractionOutcomes(content) :
       ChartDetected(elapsed, outcome)
  \/ \E elapsed \in BOOLEAN, outcome \in ExtractionOutcomes(content) :
       ExtractionInterval(elapsed, outcome)
  \/ \E elapsed \in BOOLEAN, outcome \in ExtractionOutcomes(content) :
       ContentOnToggleActive(elapsed, outcome)
  \/ \E timeframe \in SwitchedTimeframes, elapsed \in BOOLEAN,
        outcome \in ExtractionOutcomes(content) :
       CheckTimeframe(timeframe, elapsed, outcome)
  \/ \E e \in Evals : ContentResponseCallback(e)
  \/ PopupGetStateCallback
  \/ PopupGetSignalCallback
  \/ PopupToggle
  \/ \E timeframe \in SwitchedTimeframes : PopupTimeframeButton(timeframe)

ExtensionSpec == ExtensionInit /\ [][ExtensionNext]_vars


(***************************************************************************)
(* Direct calls of the signal scorer: generateSignal applied to every      *)
(* indicator snapshot and directional estimate of a bounded set.  The      *)
(* call records the local signalPoints beside the signal returned.         *)
(***************************************************************************)
Crossovers == {"bullish", "bearish", "none"}
Positions == {"upper", "middle", "lower"}
VolumeTrends == {"increasing", "decreasing", "high", "low", "stable"}
Predictions == {"up", "down", "neutral"}
RsiValues == {Whole(29), Whole(30), Whole(50), Whole(70), Whole(71), NaN}
Confidences == {-20, 30, 50, 85, 100, 150}

ScorerIndicators ==
  {[ema |-> [crossover |-> c],
    macd |-> [histogram |-> h, previousHistogram |-> ph],
    rsi |-> [value |-> r],
    bb |-> [position |-> p],
    volume |-> [trend |-> t]] :
     c \in Crossovers, h \in -MaxHist..MaxHist, ph \in -MaxHist..MaxHist,
     r \in RsiValues, p \in Positions, t \in VolumeTrends}

ScorerEstimates ==
  {[prediction |-> d, confidence |-> c] : d \in Predictions, c \in Confidences}

QuietMachine ==
  /\ MachineInit
  /\ GEMINI_API_KEY = ""
  /\ storage = Undefined

ScorerInit ==
  /\ QuietMachine
  /\ call \in {[fn |-> "generateSignal", pc |-> "start",
                indicators |-> i, aiAnalysis |-> a] :
                 i \in ScorerIndicators, a \in ScorerEstimates}

ApplyGenerateSignal ==
  /\ call.fn = "generateSignal"
  /\ call.pc = "start"
  /\ call' = [fn |-> "generateSignal", pc |-> "done",
              indicators |-> call.indicators, aiAnalysis |-> call.aiAnalysis,
              points |-> signalPoints(call.indicators, call.aiAnalysis),
              result |-> generateSignal(call.indicators, call.aiAnalysis)]
  /\ UNCHANGED <<isActive, selectedTimeframe, signals, candleData, accuracyStats,
                 GEMINI_API_KEY, content, popup, channel, storage, restore, evals, outbox, handled, base,
                 lastRecord, trackResponse>>

ScorerNext == ApplyGenerateSignal

ScorerSpec == ScorerInit /\ [][ScorerNext]_vars


(***************************************************************************)
(* getAIPrediction of the AI analysis module (part_001 19-87), called      *)
(* directly with every key, series, snapshot and outcome of the request.   *)
(* Every failure, and a missing key, returns getPatternBasedPrediction     *)
(* (24, 82, 85); a parsed reply is returned with source 'gemini' (71-75).  *)
(***************************************************************************)
aiPredictionFromBody(body, candles, indicators) ==
  IF body.kind = "json"
  THEN [prediction |-> replyPrediction(body.obj),
        confidence |-> replyConfidence(body.obj),
        source |-> "gemini"]
  ELSE getPatternBasedPrediction(candles, indicators)

callCandles == CandleSeriesCatalog[call.candles.series]

AiReturn(result, via, body) ==
  /\ call' = [fn |-> "getAIPrediction", pc |-> "done", apiKey |-> call.apiKey,
              candles |-> call.candles, indicators |-> call.indicators,
              via |-> via, body |-> body, result |-> result]
  /\ UNCHANGED <<isActive, selectedTimeframe, signals, candleData, accuracyStats,
                 GEMINI_API_KEY, content, popup, channel, storage, restore, evals, outbox, handled, base,
                 lastRecord, trackResponse>>

AiMoveTo(pc) ==
  /\ call' = [call EXCEPT !.pc = pc]
  /\ UNCHANGED <<isActive, selectedTimeframe, signals, candleData, accuracyStats,
                 GEMINI_API_KEY, content, popup, channel, storage, restore, evals, outbox, handled, base,
                 lastRecord, trackResponse>>

NoBody == [kind |-> "none"]

\* part_001 20-56: without a key the fallback is returned, with a key the request is sent
AiCall ==
  /\ call.fn = "getAIPrediction" /\ call.pc = "start"
  /\ IF call.apiKey = ""
     THEN AiReturn(getPatternBasedPrediction(callCandles, call.indicators),
                   "noKey", NoBody)
     ELSE AiMoveTo("awaitFetch")

\* fetch rejects: part_001 83-86
AiFetchRejects ==
  /\ call.fn = "getAIPrediction" /\ call.pc = "awaitFetch"
  /\ AiReturn(getPatternBasedPrediction(callCandles, call.indicators),
              "fetchRejected", NoBody)

\* the status is not OK: part_001 58-60, 83-86
AiFetchNotOk ==
  /\ call.fn = "getAIPrediction" /\ call.pc = "awaitFetch"
  /\ AiReturn(getPatternBasedPrediction(callCandles, call.indicators),
              "httpNotOk", NoBody)

\* fetch resolves OK and response.json() is awaited: part_001 62
AiFetchOk ==
  /\ call.fn = "getAIPrediction" /\ call.pc = "awaitFetch"
  /\ AiMoveTo("awaitJson")

\* the request is never answered; part_001 31-56 passes no signal and sets no timer
AiFetchNeverSettles ==
  /\ call.fn = "getAIPrediction" /\ call.pc = "awaitFetch"
  /\ AiMoveTo("fetchPending")

\* response.json() rejects: part_001 62, 83-86
AiJsonRejects ==
  /\ call.fn = "getAIPrediction" /\ call.pc = "awaitJson"
  /\ AiReturn(getPatternBasedPrediction(callCandles, call.indicators),
              "bodyNotJson", NoBody)

\* response.json() resolves: part_001 62-82
AiJsonResolves(body) ==
  /\ call.fn = "getAIPrediction" /\ call.pc = "awaitJson"
  /\ AiReturn(aiPredictionFromBody(body, callCandles, call.indicators),
              IF body.kind = "json" THEN "reply" ELSE body.kind, body)

FusionInit ==
  /\ QuietMachine
  /\ call \in {[fn |-> "getAIPrediction", pc |-> "start", apiKey |-> k,
                candles |-> [series |-> s], indicators |-> i] :
                 k \in {"", "key"}, s \in SeriesIds, i \in ScorerIndicators}

FusionNext ==
  \/ AiCall
  \/ AiFetchRejects
  \/ AiFetchNotOk
  \/ AiFetchOk
  \/ AiFetchNeverSettles
  \/ AiJsonRejects
  \/ \E body \in PredictorBodies : AiJsonResolves(body)

FusionSpec == FusionInit /\ [][FusionNext]_vars

(***************************************************************************)
(* Direct calls of the indicator library (the exports of dataExtractor.js  *)
(* 816-825): calculateAllIndicators and the five indicator functions       *)
(* applied to one series.  The series of a call is given by its shape:     *)
(* len candles whose closes start at start and change by first and second  *)
(* in turn, the last tail closes raised by jump; every candle opens at the *)
(* previous close, so that low <= min(open, close) <= max(open, close)     *)
(* <= high holds; the volume is 10 except for the last candle.             *)
(***************************************************************************)
shapeClose(shape, i) ==
  shape.start + ((i - 1) \div 2) * (shape.first + shape.second)
    + (IF (i - 1) % 2 = 1 THEN shape.first ELSE 0)
    + (IF i > shape.len - shape.tail THEN shape.jump ELSE 0)

shapeSeries(shape) ==
  [i \in 1..shape.len |->
     LET close == shapeClose(shape, i)
         open == IF i = 1 THEN close ELSE shapeClose(shape, i - 1)
     IN  [timestamp |-> i, open |-> open, high |-> Max(open, close),
          low |-> Min(open, close), close |-> close,
          volume |-> IF i = shape.len THEN shape.lastVolume ELSE 10]]

SeriesLengths == {9, 14, 15, 19, 20, 25, 30, 52}

AlternatingShapes ==
  {sh \in [start : {0, 100}, first : {-1, 0, 1}, second : {-1, 0, 1},
           tail : {0}, jump : {0}, len : SeriesLengths, lastVolume : {2, 10, 40}] :
     sh.start = 0 => (sh.first >= 0 /\ sh.first + sh.second >= 0)}

ShelfShapes ==
  [start : {100}, first : {0}, second : {0}, tail : {1, 4, 5}, jump : {-5, 5},
   len : {20, 30, 52}, lastVolume : {10}]

LibraryShapes == AlternatingShapes \cup ShelfShapes

LibraryInit ==
  /\ QuietMachine
  /\ call \in {[fn |-> "indicators", pc |-> "start", shape |-> sh] :
                 sh \in LibraryShapes}

ApplyIndicatorLibrary ==
  /\ call.fn = "indicators"
  /\ call.pc = "start"
  /\ LET candles == shapeSeries(call.shape)
         closes == closesOf(candles)
     IN  call' = [fn |-> "indicators", pc |-> "done", shape |-> call.shape,
                  all |-> calculateAllIndicators(candles),
                  ema |-> calculateEMA(closes),
                  macd |-> calculateMACD(closes),
                  rsi |-> calculateRSI(closes),
                  bb |-> calculateBollingerBands(closes),
                  volume |-> analyzeVolume(volumesOf(candles), closes)]
  /\ UNCHANGED <<isActive, selectedTimeframe, signals, candleData, accuracyStats,
                 GEMINI_API_KEY, content, popup, channel, storage, restore, evals, outbox, handled, base,
                 lastRecord, trackResponse>>

LibraryNext == ApplyIndicatorLibrary

LibrarySpec == LibraryInit /\ [][LibraryNext]_vars


(***************************************************************************)
(* getEMA (dataExtractor.js 566-590) in binary floating point.  A          *)
(* JavaScript number has a significand of 53 bits and every sum,           *)
(* difference, product and quotient is rounded to the nearest              *)
(* representable value, ties to the even significand.  Here the            *)
(* significand has Precision bits and a value is held as the integer       *)
(* count of units of 2^-FractionBits; the arithmetic is the same.  Below   *)
(* 2^(Precision-1) units the spacing stays one unit (gradual underflow).   *)
(***************************************************************************)
Precision == 5

FractionBits == 2 * Precision + 2

One == 2 ^ FractionBits

\* the spacing of the representable values around num / den >= 0
RECURSIVE spacingAround(_, _, _)
spacingAround(num, den, u) ==
  IF num < (2 ^ Precision) * u * den THEN u
  ELSE spacingAround(num, den, 2 * u)

\* num / den >= 0 rounded to the nearest representable value, ties to even
roundNearestEven(num, den) ==
  LET u == spacingAround(num, den, 1)
      m == num \div (den * u)
      rest == num - m * den * u
  IN  IF 2 * rest > den * u THEN (m + 1) * u
      ELSE IF 2 * rest < den * u THEN m * u
      ELSE (m + (m % 2)) * u

rounded(num, den) ==
  IF num < 0 THEN 0 - roundNearestEven(0 - num, den)
  ELSE roundNearestEven(num, den)

floatAdd(a, b) == rounded(a + b, 1)

floatSubtract(a, b) == rounded(a - b, 1)

floatMultiply(a, b) == rounded(a * b, One)

\* a / k for a whole number k
floatDivideBy(a, k) == rounded(a, k)

\* the loop of lines 572-575: sum += prices[i]
RECURSIVE roundedSum(_, _)
roundedSum(prices, i) ==
  IF i = 0 THEN 0 ELSE floatAdd(roundedSum(prices, i - 1), prices[i])

RECURSIVE roundedEmaValues(_, _, _)
roundedEmaValues(prices, period, i) ==
  IF i = period
    THEN [j \in 1..period |->
            IF j < period THEN 0
            ELSE floatDivideBy(roundedSum(prices, period), period)]
  ELSE LET previous == roundedEmaValues(prices, period, i - 1)
           multiplier == rounded(2 * One, period + 1)
       IN  Append(previous,
                  floatAdd(floatMultiply(floatSubtract(prices[i], previous[i - 1]),
                                         multiplier),
                           previous[i - 1]))

getEMARounded(prices, period) ==
  IF Len(prices) < period THEN [j \in 1..Len(prices) |-> 0]
  ELSE roundedEmaValues(prices, period, Len(prices))

\* the representable prices in [1, 4)
RepresentablePrices ==
  {m * (2 ^ e) * (2 ^ (FractionBits - Precision + 1)) :
     m \in (2 ^ (Precision - 1))..(2 ^ Precision - 1), e \in {0, 1}}

EmaPeriods == {2, 3, 5, 9}

ConstantSeriesInit ==
  /\ QuietMachine
  /\ call \in {[fn |-> "getEMA", pc |-> "start", price |-> p, period |-> k,
                len |-> k + extra] :
                 p \in RepresentablePrices, k \in EmaPeriods, extra \in {0, 3}}

ApplyGetEMA ==
  /\ call.fn = "getEMA"
  /\ call.pc = "start"
  /\ call' = [fn |-> "getEMA", pc |-> "done", price |-> call.price,
              period |-> call.period, len |-> call.len,
              ema |-> getEMARounded([i \in 1..call.len |-> call.price],
                                    call.period)]
  /\ UNCHANGED <<isActive, selectedTimeframe, signals, candleData, accuracyStats,
                 GEMINI_API_KEY, content, popup, channel, storage, restore, evals, outbox, handled, base,
                 lastRecord, trackResponse>>

ConstantSeriesNext == ApplyGetEMA

ConstantSeriesSpec == ConstantSeriesInit /\ [][ConstantSeriesNext]_vars


(***************************************************************************)
(* The pattern detector as part_001 exports it (320-327), applied to       *)
(* series that end in every three candles of a small family of shapes,     *)
(* after a lead of equal candles whose close sets the 10-bar trend.        *)
(* Prices are integers; every candle satisfies low <= open, close <= high. *)
(***************************************************************************)
candleOf(shape, i) ==
  [timestamp |-> i, open |-> shape[1], high |-> shape[2], low |-> shape[3],
   close |-> shape[4], volume |-> 10]

\* <<open, high, low, close>>
CandleShapes ==
  [doji |-> <<103, 130, 95, 100>>,          \* body 3 of range 35
   tenth |-> <<100, 105, 95, 101>>,         \* body exactly a tenth of the range
   flat |-> <<100, 100, 100, 100>>,         \* range 0
   hammer |-> <<100, 105, 90, 104>>,        \* lower wick 10, body 4, upper wick 1
   littleBearish |-> <<103, 104, 100, 101>>,
   tinyBullish |-> <<101, 103, 100, 102>>,
   bigBullish |-> <<95, 111, 94, 110>>,
   bigBearish |-> <<110, 111, 94, 95>>,
   midBearish |-> <<100, 101, 96, 98>>]

ShapeNames == DOMAIN CandleShapes

LeadCloses == {80, 100, 130}

TailLengths == {4, 5, 12}

tailSeries(tail) ==
  [i \in 1..tail.len |->
     IF i = tail.len THEN candleOf(CandleShapes[tail.last], i)
     ELSE IF i = tail.len - 1 THEN candleOf(CandleShapes[tail.previous], i)
     ELSE IF i = tail.len - 2 THEN candleOf(CandleShapes[tail.thirdLast], i)
     ELSE candleOf(<<tail.lead, tail.lead, tail.lead, tail.lead>>, i)]

PatternInit ==
  /\ QuietMachine
  /\ call \in {[fn |-> "patterns", pc |-> "start", tail |-> t] :
                 t \in [last : ShapeNames, previous : ShapeNames,
                        thirdLast : ShapeNames, lead : LeadCloses,
                        len : TailLengths]}

ApplyPatternDetector ==
  /\ call.fn = "patterns"
  /\ call.pc = "start"
  /\ LET candles == tailSeries(call.tail)
     IN  call' = [fn |-> "patterns", pc |-> "done", tail |-> call.tail,
                  trend |-> detectTrend(candles),
                  result |-> detectCandlestickPatterns(candles)]
  /\ UNCHANGED <<isActive, selectedTimeframe, signals, candleData, accuracyStats,
                 GEMINI_API_KEY, content, popup, channel, storage, restore, evals, outbox, handled, base,
                 lastRecord, trackResponse>>

PatternNext == ApplyPatternDetector

PatternSpec == PatternInit /\ [][PatternNext]_vars


(***************************************************************************)
(* Repeated calls of getPatternBasedPrediction (part_001 137-211) and      *)
(* generateSignal (background.js 150-217) with the same arguments, while   *)
(* the background script handles other messages in between.  Both          *)
(* functions work on their arguments and locals only.  Each invocation is  *)
(* recorded with what the background script had handled before it.         *)
(***************************************************************************)
handledBefore ==
  [toggle |-> isActive, timeframe |-> selectedTimeframe # "M1",
   record |-> handled > 0, evaluation |-> evals[1].pc = "done"]

PurityInit ==
  /\ QuietMachine
  /\ call \in {[fn |-> "repeat", candles |-> [series |-> s], indicators |-> i,
                aiAnalysis |-> a, results |-> <<>>] :
                 s \in {1, 2},
                 i \in {BullishIndicators, CatalogIndicators[1]},
                 a \in {PlaceholderPrediction,
                        [prediction |-> "up", confidence |-> 85]}}

\* the functions reading the shared state: inactive, the estimate is the placeholder
InvokeReadingState ==
  /\ call.fn = "repeat"
  /\ Len(call.results) < 2
  /\ call' = [call EXCEPT !.results = Append(@,
       [estimate |-> getPatternBasedPrediction(
                       CandleSeriesCatalog[call.candles.series], call.indicators),
        signal |-> generateSignal(call.indicators,
                                  IF isActive THEN call.aiAnalysis
                                  ELSE PlaceholderPrediction),
        after |-> handledBefore])]
  /\ UNCHANGED <<isActive, selectedTimeframe, signals, candleData, accuracyStats,
                 GEMINI_API_KEY, content, popup, channel, storage, restore, evals, outbox, handled, base,
                 lastRecord, trackResponse>>

Invoke ==
  /\ call.fn = "repeat"
  /\ Len(call.results) < 2
  /\ call' = [call EXCEPT !.results = Append(@,
       [estimate |-> getPatternBasedPrediction(
                       CandleSeriesCatalog[call.candles.series], call.indicators),
        signal |-> generateSignal(call.indicators, call.aiAnalysis),
        after |-> handledBefore])]
  /\ UNCHANGED <<isActive, selectedTimeframe, signals, candleData, accuracyStats,
                 GEMINI_API_KEY, content, popup, channel, storage, restore, evals, outbox, handled, base,
                 lastRecord, trackResponse>>

PurityNext ==
  \/ Invoke
  \/ TrackSignalResult("buy", "win")
  \/ ToggleActive(TRUE)
  \/ SetTimeframe("M5")
  \/ ReceiveNewCandleData(1, "M5", 2)
  \/ IndicatorsNoReceiver(1)
  \/ \E response \in indicatorResponsesTo(evals[1]) : IndicatorsReplied(1, response)

PuritySpec == PurityInit /\ [][PurityNext]_vars

(***************************************************************************)
(* C2.  For every indicator snapshot and directional estimate,             *)
(* generateSignal returns type buy (recommendation Buy) exactly when the   *)
(* accumulated score is above 30, type sell (Sell) exactly when it is      *)
(* below -30 and type neutral (Hold) otherwise, and in all three cases     *)
(* strength = min(|score|, 100).  (Scores in hundredths of a point.)       *)
(***************************************************************************)
C2_TypeAndStrengthFromScore ==
  (call.fn = "generateSignal" /\ call.pc = "done") =>
    LET score == call.points
        signal == call.result
    IN  /\ (signal.type = "buy") <=> (score > 3000)
        /\ (signal.recommendation = "Buy") <=> (score > 3000)
        /\ (signal.type = "sell") <=> (score < -3000)
        /\ (signal.recommendation = "Sell") <=> (score < -3000)
        /\ (signal.type = "neutral") <=> (score >= -3000 /\ score <= 3000)
        /\ (signal.recommendation = "Hold") <=> (score >= -3000 /\ score <= 3000)
        /\ signal.type \in {"buy", "sell", "neutral"}
        /\ signal.strength = (IF Abs(score) <= 10000 THEN Abs(score) ELSE 10000)

\* a score of exactly 30 points scored neutral, and a score above 100 capped
C2_Witness ==
  /\ call.fn = "generateSignal" /\ call.pc = "done"
  /\ \/ call.points = 3000 /\ call.result.type = "neutral"
        /\ call.result.strength = 3000
     \/ call.points > 10000 /\ call.result.type = "buy"
        /\ call.result.strength = 10000

(***************************************************************************)
(* C3.  The score of generateSignal is the sum of: +20 / -20 for a         *)
(* bullish / bearish EMA crossover; +20 when the MACD histogram is         *)
(* positive and above previousHistogram, -20 when negative and below it;   *)
(* +15 when RSI < 30, -15 when RSI > 70; +15 for Bollinger position lower, *)
(* -15 for upper; +10 / -10 for an increasing volume trend with the sign   *)
(* the running score already has (nothing at 0); and +20 * confidence for  *)
(* direction up, -20 * confidence for down, 0 for neutral.                 *)
(***************************************************************************)
C3_Sign(x) == IF x > 0 THEN 1 ELSE IF x < 0 THEN -1 ELSE 0

C3_ClaimedScore(i, a) ==
  LET emaC == CASE i.ema.crossover = "bullish" -> 2000
                [] i.ema.crossover = "bearish" -> -2000
                [] OTHER -> 0
      macdC == CASE i.macd.histogram > 0
                    /\ i.macd.histogram > i.macd.previousHistogram -> 2000
                 [] i.macd.histogram < 0
                    /\ i.macd.histogram < i.macd.previousHistogram -> -2000
                 [] OTHER -> 0
      rsiC == CASE i.rsi.value.den > 0
                    /\ i.rsi.value.num < 30 * i.rsi.value.den -> 1500
                [] i.rsi.value.den > 0
                    /\ i.rsi.value.num > 70 * i.rsi.value.den -> -1500
                [] OTHER -> 0
      bbC == CASE i.bb.position = "lower" -> 1500
               [] i.bb.position = "upper" -> -1500
               [] OTHER -> 0
      running == emaC + macdC + rsiC + bbC
      volumeC == IF i.volume.trend = "increasing"
                 THEN 1000 * C3_Sign(running) ELSE 0
      aiC == CASE a.prediction = "up" -> 20 * a.confidence
               [] a.prediction = "down" -> -(20 * a.confidence)
               [] OTHER -> 0
  IN  running + volumeC + aiC

C3_ScoreIsWeightedSum ==
  (call.fn = "generateSignal" /\ call.pc = "done") =>
    /\ call.points = C3_ClaimedScore(call.indicators, call.aiAnalysis)
    /\ call.result.strength =
         Min(Abs(C3_ClaimedScore(call.indicators, call.aiAnalysis)), 10000)

\* an increasing volume confirms a negative running score, and the estimate adds to it
C3_Witness ==
  /\ call.fn = "generateSignal" /\ call.pc = "done"
  /\ call.indicators.volume.trend = "increasing"
  /\ call.indicators.ema.crossover = "bearish"
  /\ call.indicators.bb.position = "lower"
  /\ call.indicators.rsi.value = Whole(50)
  /\ call.indicators.macd.histogram = 0
  /\ call.aiAnalysis = [prediction |-> "down", confidence |-> 85]
  /\ call.points = -(500 + 1000 + 1700)


(***************************************************************************)
(* C1.  For every valid candle series of at least 50 candles delivered in  *)
(* a 'newCandleData' request, the evaluation terminates, the request is    *)
(* eventually answered, and the answer carries a signal that is not null,  *)
(* whose type is buy, sell or neutral and whose strength lies in [0, 100]; *)
(* this whether or not another context answers 'calculateIndicators'.      *)
(***************************************************************************)
ValidSignal(signal) ==
  /\ ~IsNull(signal)
  /\ signal.type \in {"buy", "sell", "neutral"}
  /\ signal.strength >= 0
  /\ signal.strength <= 10000

AnsweredWithSignal(e) ==
  /\ evals[e].pc = "done"
  /\ evals[e].response.success
  /\ ValidSignal(evals[e].response.signal)

C1_EvaluationAnswersWithSignal ==
  \A e \in Evals :
    (/\ evals[e].pc = "awaitIndicators"
     /\ Len(CandleSeriesCatalog[evals[e].candleData.series]) >= 50)
      ~> AnsweredWithSignal(e)

(***************************************************************************)
(* C4.  Whenever the external predictor's call fails in any way (network   *)
(* error, non-OK status, unparseable body, no JSON object in the body),    *)
(* and likewise when no predictor is configured, the directional estimate  *)
(* handed to the signal scorer is the local estimate of                    *)
(* getPatternBasedPrediction, never a fixed placeholder.                   *)
(***************************************************************************)
C4_FailureFallsBackToPattern ==
  \A e \in Evals :
    (/\ evals[e].pc = "done"
     /\ evals[e].via # "reply"
     /\ ~IsUndefined(evals[e].indicators)) =>
      LET local == getPatternBasedPrediction(
                     CandleSeriesCatalog[evals[e].candleData.series],
                     evals[e].indicators)
      IN  /\ evals[e].aiAnalysis.prediction = local.prediction
          /\ evals[e].aiAnalysis.confidence = local.confidence

(***************************************************************************)
(* C6.  If the external predictor's call never completes, the evaluation   *)
(* is still bounded by a timeout: the pending 'newCandleData' request is   *)
(* eventually answered; the pipeline never blocks on the predictor.        *)
(***************************************************************************)
C6_PendingPredictorTimesOut ==
  \A e \in Evals : (evals[e].pc = "fetchPending") ~> (evals[e].pc = "done")


(***************************************************************************)
(* C5.  When the external predictor's reply parses as JSON but lacks the   *)
(* direction field ('prediction') or carries a confidence outside [0, 1],  *)
(* the reply is treated as a total failure and the local fallback estimate *)
(* is used; hence the confidence of every directional estimate is within   *)
(* [0, 1].  (Confidences in hundredths.)                                   *)
(***************************************************************************)
C5_MalformedReply(obj) ==
  \/ "prediction" \notin DOMAIN obj
  \/ "confidence" \in DOMAIN obj /\ (obj.confidence < 0 \/ obj.confidence > 100)

C5_MalformedReplyFallsBack ==
  (call.fn = "getAIPrediction" /\ call.pc = "done") =>
    /\ call.result.confidence >= 0
    /\ call.result.confidence <= 100
    /\ (call.body.kind = "json" /\ C5_MalformedReply(call.body.obj)) =>
         call.result = getPatternBasedPrediction(callCandles, call.indicators)


(***************************************************************************)
(* C7.  Every call of the record operation increments totalSignals by      *)
(* exactly 1 whatever the signal type and outcome; it increments           *)
(* correctSignals by exactly 1 when the type is buy or sell and the        *)
(* outcome is win, and leaves it unchanged otherwise (a neutral signal     *)
(* with win included); hence correctSignals <= totalSignals throughout.    *)
(***************************************************************************)
RecordStep == handled' = handled + 1

C7_RecordIncrementsCounters ==
  [][/\ RecordStep =>
          LET request == lastRecord'[Len(lastRecord')]
              counted == request.signalType \in {"buy", "sell"}
                         /\ request.result = "win"
          IN  /\ accuracyStats'.totalSignals = accuracyStats.totalSignals + 1
              /\ accuracyStats'.correctSignals =
                   accuracyStats.correctSignals + (IF counted THEN 1 ELSE 0)
     /\ accuracyStats.correctSignals <= accuracyStats.totalSignals
     /\ accuracyStats'.correctSignals <= accuracyStats'.totalSignals]_vars

\* a winning neutral signal was recorded after a winning buy and was not counted
C7_Witness ==
  /\ handled = 2
  /\ base = ZeroStats
  /\ lastRecord = <<[signalType |-> "buy", result |-> "win"],
                    [signalType |-> "neutral", result |-> "win"]>>
  /\ accuracyStats = [totalSignals |-> 2, correctSignals |-> 1]

(***************************************************************************)
(* C8.  The record operation returns the updated accuracy as a percentage, *)
(* (correctSignals / totalSignals) * 100, a value in [0, 100]: starting    *)
(* from zeroed counters, recording (buy, win) and then (sell, loss) leaves *)
(* totalSignals = 2, correctSignals = 1 and the second call returns        *)
(* exactly 50.                                                             *)
(***************************************************************************)
BuyWin == [signalType |-> "buy", result |-> "win"]
SellLoss == [signalType |-> "sell", result |-> "loss"]

FirstIsBuyWin ==
  /\ handled = 0 /\ accuracyStats = ZeroStats
  /\ handled' = 1 /\ lastRecord' = <<BuyWin>>

SecondIsSellLoss ==
  /\ handled = 1 /\ base = ZeroStats /\ lastRecord = <<BuyWin>>
  /\ accuracyStats = [totalSignals |-> 1, correctSignals |-> 1]
  /\ handled' = 2 /\ lastRecord' = <<BuyWin, SellLoss>>

C9_RestoreKeepsRecords ==
  [][/\ accuracyStats'.totalSignals >= accuracyStats.totalSignals
     /\ accuracyStats'.correctSignals >= accuracyStats.correctSignals
     /\ (handled > 0 /\ ~RecordStep) => accuracyStats' = accuracyStats]_vars

(***************************************************************************)
(* C10.  Record calls do not lose updates: after N 'trackSignalResult'     *)
(* messages have been handled, in any order and interleaved with an        *)
(* in-flight 'newCandleData' evaluation, totalSignals equals the value the *)
(* first of them found plus N, and the value last written to storage       *)
(* equals the counters in memory.                                          *)
(***************************************************************************)
C10_NoLostUpdates ==
  handled > 0 =>
    /\ accuracyStats.totalSignals = base.totalSignals + handled
    /\ storage = accuracyStats


(***************************************************************************)
(* C11.  A candle series containing a candle that violates                 *)
(* low <= min(open, close) <= max(open, close) <= high is rejected as a    *)
(* whole: no indicator is computed for it, no signal is stored or emitted  *)
(* for it, and the request is answered with a failure.                     *)
(***************************************************************************)
CandleInvariant(candle) ==
  /\ candle.low <= Min(candle.open, candle.close)
  /\ Max(candle.open, candle.close) <= candle.high

ValidSeries(candles) == \A i \in DOMAIN candles : CandleInvariant(candles[i])

RequestSeries(e) == CandleSeriesCatalog[evals[e].candleData.series]

C11_InvalidSeriesRejected ==
  /\ \A e \in Evals :
       (evals[e].pc # "idle" /\ ~ValidSeries(RequestSeries(e))) =>
         /\ IsUndefined(evals[e].indicators)
         /\ evals[e].pc = "done" => ~evals[e].response.success
  /\ (\A e \in Evals : evals[e].pc # "idle" => ~ValidSeries(RequestSeries(e))) =>
       /\ outbox = {}
       /\ \A t \in TIMEFRAMES : IsUndefined(signals[t])

(***************************************************************************)
(* C12.  For every indicator, a series shorter than the indicator's        *)
(* lookback (EMA-20 20, EMA-50 50, the crossover 52, MACD 26, RSI 15       *)
(* closes, Bollinger 20, volume 10, calculateAllIndicators 30) yields a    *)
(* result that no series with sufficient data yields: it is marked as      *)
(* insufficient data and is never a plain 0, RSI 50, crossover 'none',     *)
(* position 'middle' or trend 'stable'.                                    *)
(***************************************************************************)
LibraryCallDone == call.fn = "indicators" /\ call.pc = "done"

ShapesFrom(lookback) == {sh \in LibraryShapes : sh.len >= lookback}

ShapeCloses(sh) == closesOf(shapeSeries(sh))

Ema20OnSufficientData == {calculateEMA(ShapeCloses(sh)).ema20 : sh \in ShapesFrom(20)}
Ema50OnSufficientData == {calculateEMA(ShapeCloses(sh)).ema50 : sh \in ShapesFrom(50)}
CrossoverOnSufficientData ==
  {calculateEMA(ShapeCloses(sh)).crossover : sh \in ShapesFrom(52)}
MacdOnSufficientData == {calculateMACD(ShapeCloses(sh)) : sh \in ShapesFrom(26)}
RsiOnSufficientData == {calculateRSI(ShapeCloses(sh)) : sh \in ShapesFrom(15)}
BollingerOnSufficientData ==
  {calculateBollingerBands(ShapeCloses(sh)) : sh \in ShapesFrom(20)}
VolumeOnSufficientData ==
  {analyzeVolume(volumesOf(shapeSeries(sh)), ShapeCloses(sh)) : sh \in ShapesFrom(10)}

C12_InsufficientDataIsMarked ==
  LibraryCallDone =>
    /\ call.shape.len < 20 => call.ema.ema20 \notin Ema20OnSufficientData
    /\ call.shape.len < 50 => call.ema.ema50 \notin Ema50OnSufficientData
    /\ call.shape.len < 52 => call.ema.crossover \notin CrossoverOnSufficientData
    /\ call.shape.len < 26 => call.macd \notin MacdOnSufficientData
    /\ call.shape.len < 15 => call.rsi \notin RsiOnSufficientData
    /\ call.shape.len < 20 => call.bb \notin BollingerOnSufficientData
    /\ call.shape.len < 10 => call.volume \notin VolumeOnSufficientData
    /\ call.shape.len < 30 =>
         /\ call.all.rsi \notin RsiOnSufficientData
         /\ call.all.bb \notin BollingerOnSufficientData
         /\ call.all.volume \notin VolumeOnSufficientData

(***************************************************************************)
(* C13.  When a series is too short for some indicators but long enough    *)
(* for others, calculateAllIndicators computes every indicator whose       *)
(* lookback is satisfied: its rsi, bb, volume, macd and ema are what the   *)
(* indicator's own function computes from the series, in particular for a  *)
(* series of 20 to 29 candles.                                             *)
(***************************************************************************)
C13_SatisfiedIndicatorsAreComputed ==
  LibraryCallDone =>
    /\ call.shape.len >= 15 => call.all.rsi = call.rsi
    /\ call.shape.len >= 20 => call.all.bb = call.bb
    /\ call.shape.len >= 10 => call.all.volume = call.volume
    /\ call.shape.len >= 26 => call.all.macd = call.macd
    /\ call.shape.len >= 20 => call.all.ema.ema20 = call.ema.ema20

(***************************************************************************)
(* C14.  For every close series of length >= 15 in which no close is       *)
(* below its predecessor (the smoothed average loss is 0), calculateRSI    *)
(* returns exactly 100, the series of constant prices included.            *)
(***************************************************************************)
NoCloseBelowPredecessor(sh) ==
  \A i \in 1..(sh.len - 1) : shapeClose(sh, i) <= shapeClose(sh, i + 1)

C14_RsiIs100WithoutLosses ==
  (/\ LibraryCallDone
   /\ call.shape.len >= 15
   /\ NoCloseBelowPredecessor(call.shape)) =>
    call.rsi.value = Whole(100)

(***************************************************************************)
(* C15.  No numeric field the indicator library produces for a series of   *)
(* candles that satisfy the candle invariant is NaN or +/-Infinity, also   *)
(* when the divisor of a division is zero: the Bollinger middle (width),   *)
(* the average loss (RSI).                                                 *)
(***************************************************************************)
C15_NoNaNOrInfinity ==
  (LibraryCallDone /\ ValidSeries(shapeSeries(call.shape))) =>
    /\ IsFinite(call.rsi.value)
    /\ IsFinite(call.bb.width)
    /\ IsFinite(call.all.rsi.value)
    /\ IsFinite(call.all.bb.width)

(***************************************************************************)
(* C16.  For every close series of length >= 20, calculateBollingerBands   *)
(* returns position 'upper' if and only if the last close >= middle +      *)
(* 2 * stddev, and 'lower' if and only if the last close <= middle -       *)
(* 2 * stddev and the position is not 'upper', boundaries inclusive; when  *)
(* the last 20 closes are equal (stddev = 0) the last close equals both    *)
(* bands and the position is 'upper'.                                      *)
(* With sum the sum of the last 20 closes, d = 20 * last - sum and         *)
(* squares the sum of (20 * close - sum)^2 over them, last >= middle +     *)
(* 2 * stddev is d >= 0 and 5 * d^2 >= squares.                            *)
(***************************************************************************)
WindowClose(sh, j) == shapeClose(sh, sh.len - 20 + j)

WindowSum(sh) == SumOver([j \in 1..20 |-> WindowClose(sh, j)], 1, 20)

WindowSquares(sh) ==
  SumOver([j \in 1..20 |-> (20 * WindowClose(sh, j) - WindowSum(sh))
                             * (20 * WindowClose(sh, j) - WindowSum(sh))], 1, 20)

WindowDistance(sh) == 20 * shapeClose(sh, sh.len) - WindowSum(sh)

AtOrAboveUpperBand(sh) ==
  /\ WindowDistance(sh) >= 0
  /\ 5 * WindowDistance(sh) * WindowDistance(sh) >= WindowSquares(sh)

AtOrBelowLowerBand(sh) ==
  /\ WindowDistance(sh) <= 0
  /\ 5 * WindowDistance(sh) * WindowDistance(sh) >= WindowSquares(sh)

C16_PositionUpperBeforeLower ==
  (LibraryCallDone /\ call.shape.len >= 20) =>
    /\ call.bb.position = "upper" <=> AtOrAboveUpperBand(call.shape)
    /\ call.bb.position = "lower" <=>
         (AtOrBelowLowerBand(call.shape) /\ ~AtOrAboveUpperBand(call.shape))
    /\ WindowSquares(call.shape) = 0 => call.bb.position = "upper"

\* C16 as stated: each position exactly when the last close is at or beyond its band
C16_PositionIffBeyondBand ==
  (LibraryCallDone /\ call.shape.len >= 20) =>
    /\ call.bb.position = "upper" <=> AtOrAboveUpperBand(call.shape)
    /\ call.bb.position = "lower" <=> AtOrBelowLowerBand(call.shape)

\* twenty equal closes: the last close is on both bands and the position is 'upper'
C16_Witness ==
  /\ LibraryCallDone
  /\ call.shape.len >= 20
  /\ WindowSquares(call.shape) = 0
  /\ AtOrAboveUpperBand(call.shape)
  /\ AtOrBelowLowerBand(call.shape)
  /\ call.bb.position = "upper"

(***************************************************************************)
(* C17.  For the 60-candle series in which every close is the previous     *)
(* close + 1 and the volume is constant, evaluated without an external     *)
(* predictor on the indicators the library computes for it, the signal     *)
(* returned has type buy and strength > 30, and the EMA crossover is       *)
(* 'bullish' or 'none', never 'bearish'.                                   *)
(***************************************************************************)
IsCleanUptrend(candles) ==
  /\ Len(candles) = 60
  /\ \A i \in 2..60 : /\ candles[i].close = candles[i - 1].close + 1
                      /\ candles[i].volume = candles[1].volume

C17_CleanUptrendIsBuy ==
  \A e \in Evals :
    (/\ evals[e].pc = "done"
     /\ IsCleanUptrend(RequestSeries(e))
     /\ evals[e].via = "noKey"
     /\ evals[e].indicators = CatalogIndicators[evals[e].candleData.series]) =>
      /\ ~IsNull(evals[e].response.signal)
      /\ evals[e].response.signal.type = "buy"
      /\ evals[e].response.signal.strength > 3000
      /\ evals[e].response.signal.details.ema \in {"bullish", "none"}

C19_Fired(points) == IF points # 0 THEN 1 ELSE 0

C19_Claimed(candles, i) ==
  LET emaC == CASE i.ema.crossover = "bullish" -> 25
                [] i.ema.crossover = "bearish" -> -25
                [] OTHER -> 0
      macdC == CASE i.macd.histogram > 0
                    /\ i.macd.histogram > i.macd.previousHistogram -> 20
                 [] i.macd.histogram < 0
                    /\ i.macd.histogram < i.macd.previousHistogram -> -20
                 [] OTHER -> 0
      rsiC == CASE i.rsi.value.den > 0
                    /\ i.rsi.value.num < 30 * i.rsi.value.den -> 15
                [] i.rsi.value.den > 0
                    /\ i.rsi.value.num > 70 * i.rsi.value.den -> -15
                [] OTHER -> 0
      bbC == CASE i.bb.position = "lower" -> 20
               [] i.bb.position = "upper" -> -20
               [] OTHER -> 0
      running == emaC + macdC + rsiC + bbC
      volumeC == IF i.volume.trend = "increasing"
                 THEN 10 * C3_Sign(running) ELSE 0
      pattern == detectCandlestickPatterns(candles)
      raw == 50 + 10 * C19_Fired(emaC) + 8 * C19_Fired(macdC)
               + 6 * C19_Fired(rsiC) + 8 * C19_Fired(bbC)
               + 4 * C19_Fired(volumeC) + pattern.confidence
  IN  [score |-> running + volumeC + pattern.score,
       confidence |-> IF raw < 30 THEN 30 ELSE IF raw > 85 THEN 85 ELSE raw]

FallbackReturned ==
  /\ call.fn = "getAIPrediction"
  /\ call.pc = "done"
  /\ call.via # "reply"

C19_FallbackDirectionAndConfidence ==
  FallbackReturned =>
    LET claimed == C19_Claimed(callCandles, call.indicators)
    IN  /\ call.result.source = "pattern"
        /\ call.result.prediction = "up" <=> claimed.score > 15
        /\ call.result.prediction = "down" <=> claimed.score < -15
        /\ call.result.prediction = "neutral" <=>
             (claimed.score >= -15 /\ claimed.score <= 15)
        /\ call.result.confidence = claimed.confidence
        /\ call.result.confidence >= 30
        /\ call.result.confidence <= 85

\* every category fired upwards on the uptrend: 0.5 + 0.36 + 0.05 is clamped to 0.85
C19_Witness ==
  /\ FallbackReturned
  /\ call.candles.series = 1
  /\ call.indicators.ema.crossover = "bullish"
  /\ call.indicators.macd.histogram > call.indicators.macd.previousHistogram
  /\ call.indicators.macd.histogram > 0
  /\ call.indicators.rsi.value = Whole(29)
  /\ call.indicators.bb.position = "lower"
  /\ call.indicators.volume.trend = "increasing"
  /\ call.result = [prediction |-> "up", confidence |-> 85, source |-> "pattern"]

(***************************************************************************)
(* C20.  detectCandlestickPatterns applies a fixed priority: a doji (body  *)
(* / range < 0.10) gives {score 0, confidence 0.02} before any other       *)
(* check; otherwise the hammer check, the engulfing check and the          *)
(* three-in-a-row check are made in that order and the first that matches  *)
(* gives the result; when none matches the result is {0, 0}.  Always       *)
(* score is in {-10, 0, 10} and confidence in [0, 0.05] (hundredths here). *)
(* The checks are written from the definitions of the patterns; a check    *)
(* that does not match gives no answer.                                    *)
(***************************************************************************)
PatternCallDone == call.fn = "patterns" /\ call.pc = "done"

NoAnswer == [score |-> 0, confidence |-> 0]

Body(c) == IF c.close >= c.open THEN c.close - c.open ELSE c.open - c.close

Range(c) == c.high - c.low

TenBarChangeAbove2(candles) ==
  LET first == candles[Len(candles) - 9].close
  IN  Len(candles) >= 10 /\ first > 0
      /\ 100 * (candles[Len(candles)].close - first) > 2 * first

TenBarChangeBelowMinus2(candles) ==
  LET first == candles[Len(candles) - 9].close
  IN  Len(candles) >= 10 /\ first > 0
      /\ 100 * (candles[Len(candles)].close - first) < -2 * first

DojiCheck(candles) ==
  LET c == candles[Len(candles)]
  IN  IF Range(c) > 0 /\ 10 * Body(c) < Range(c)
      THEN <<[score |-> 0, confidence |-> 2]>> ELSE <<>>

HammerCheck(candles) ==
  LET c == candles[Len(candles)]
      lower == (IF c.open < c.close THEN c.open ELSE c.close) - c.low
      upper == c.high - (IF c.open > c.close THEN c.open ELSE c.close)
      shaped == lower > 2 * Body(c) /\ 2 * upper < Body(c)
  IN  IF shaped /\ TenBarChangeBelowMinus2(candles)
      THEN <<[score |-> 10, confidence |-> 4]>>
      ELSE IF shaped /\ TenBarChangeAbove2(candles)
      THEN <<[score |-> -10, confidence |-> 4]>>
      ELSE <<>>

EngulfingCheck(candles) ==
  LET c == candles[Len(candles)]
      p == candles[Len(candles) - 1]
  IN  IF c.close > c.open /\ p.close <= p.open
         /\ c.open < p.close /\ c.close > p.open
      THEN <<[score |-> 10, confidence |-> 5]>>
      ELSE IF c.close <= c.open /\ p.close > p.open
              /\ c.open > p.close /\ c.close < p.open
      THEN <<[score |-> -10, confidence |-> 5]>>
      ELSE <<>>

ThreeInARowCheck(candles) ==
  LET c == candles[Len(candles)]
      p == candles[Len(candles) - 1]
      t == candles[Len(candles) - 2]
  IN  IF c.close > c.open /\ p.close > p.open /\ t.close > t.open
         /\ c.close > p.close /\ p.close > t.close
      THEN <<[score |-> 10, confidence |-> 5]>>
      ELSE IF c.close <= c.open /\ p.close <= p.open /\ t.close < t.open
              /\ c.close < p.close /\ p.close < t.close
      THEN <<[score |-> -10, confidence |-> 5]>>
      ELSE <<>>

FirstMatch(candles) ==
  LET answers == DojiCheck(candles) \o HammerCheck(candles)
                   \o EngulfingCheck(candles) \o ThreeInARowCheck(candles)
                   \o <<NoAnswer>>
  IN  answers[1]

ResultInRange ==
  /\ call.result.score \in {-10, 0, 10}
  /\ call.result.confidence \in 0..5

\* as stated: the priority holds on every series
C20_PatternPriority ==
  PatternCallDone =>
    /\ call.result = FirstMatch(tailSeries(call.tail))
    /\ ResultInRange

\* the priority holds on series of five candles or more; a shorter one has no pattern
C20_PatternPriorityFromFiveCandles ==
  PatternCallDone =>
    /\ call.tail.len >= 5 =>
         call.result = FirstMatch(tailSeries(call.tail))
    /\ call.tail.len < 5 => call.result = NoAnswer
    /\ ResultInRange

\* a hammer in an uptrend that also engulfs the candle before it: the hammer decides
C20_Witness ==
  /\ PatternCallDone
  /\ call.tail.len = 12
  /\ call.tail.lead = 80
  /\ call.tail.last = "hammer"
  /\ call.tail.previous = "littleBearish"
  /\ EngulfingCheck(tailSeries(call.tail)) = <<[score |-> 10, confidence |-> 5]>>
  /\ call.result = [score |-> -10, confidence |-> 4]

(***************************************************************************)
(* C21.  For every volume / close series of length >= 10, analyzeVolume    *)
(* gives the trend 'increasing' or 'decreasing' when the current volume is *)
(* > 1.5 x the 10-bar average and the last close moved up or down          *)
(* respectively, 'low' when the current volume is < 0.5 x the average, and *)
(* 'stable' in every other case.                                           *)
(***************************************************************************)
LastTenVolumes(sh) ==
  SumOver(volumesOf(shapeSeries(sh)), sh.len - 9, sh.len)

LastCloseMove(sh) == shapeClose(sh, sh.len) - shapeClose(sh, sh.len - 1)

\* current > 1.5 x (sum / 10), without the division
VolumeAbove(sh) == 20 * sh.lastVolume > 3 * LastTenVolumes(sh)

\* current < 0.5 x (sum / 10), without the division
VolumeBelow(sh) == 20 * sh.lastVolume < LastTenVolumes(sh)

DefinedMacdLine(closes) ==
  LET ema12 == getEMA(closes, 12)
      ema26 == getEMA(closes, 26)
  IN  [j \in 1..(Len(closes) - 25) |-> ema12[25 + j] - ema26[25 + j]]

SignalOfDefinedLine(closes) == getEMA(DefinedMacdLine(closes), 9)

C22_MacdHistogramIsLineMinusSignal ==
  (LibraryCallDone /\ call.shape.len >= 26) =>
    LET closes == ShapeCloses(call.shape)
        n == Len(closes)
        line == DefinedMacdLine(closes)
        signal == SignalOfDefinedLine(closes)
    IN  /\ call.macd.histogram = call.macd.line - call.macd.signal
        /\ call.macd.line = line[n - 25]
        /\ n >= 34 => call.macd.signal = signal[n - 25]
        /\ n >= 35 =>
             call.macd.previousHistogram = line[n - 26] - signal[n - 26]

(***************************************************************************)
(* C23.  For every close series of length >= 52, calculateEMA reports the  *)
(* crossover 'bullish' exactly when EMA-20 <= EMA-50 at the previous point *)
(* and EMA-20 > EMA-50 at the last point, 'bearish' exactly when EMA-20 >= *)
(* EMA-50 at the previous point and EMA-20 < EMA-50 at the last point, and *)
(* 'none' otherwise; for a shorter series the crossover is never 'bullish' *)
(* or 'bearish'.                                                           *)
(***************************************************************************)
Ema20At(sh, i) == getEMA(ShapeCloses(sh), 20)[i]

Ema50At(sh, i) == getEMA(ShapeCloses(sh), 50)[i]

CrossedUpwards(sh) ==
  /\ Ema20At(sh, sh.len - 1) <= Ema50At(sh, sh.len - 1)
  /\ Ema20At(sh, sh.len) > Ema50At(sh, sh.len)

CrossedDownwards(sh) ==
  /\ Ema20At(sh, sh.len - 1) >= Ema50At(sh, sh.len - 1)
  /\ Ema20At(sh, sh.len) < Ema50At(sh, sh.len)

C23_CrossoverAtLastPoint ==
  LibraryCallDone =>
    LET sh == call.shape
    IN  /\ sh.len >= 52 =>
             /\ call.ema.crossover = "bullish" <=> CrossedUpwards(sh)
             /\ call.ema.crossover = "bearish" <=> CrossedDownwards(sh)
             /\ call.ema.crossover = "none" <=>
                  (~CrossedUpwards(sh) /\ ~CrossedDownwards(sh))
        /\ sh.len < 52 => call.ema.crossover = "none"

\* 51 equal closes and a last one above them: the averages part from equality
C23_Witness ==
  /\ LibraryCallDone
  /\ call.shape.len = 52
  /\ Ema20At(call.shape, 51) = Ema50At(call.shape, 51)
  /\ call.ema.crossover = "bullish"

(***************************************************************************)
(* C24.  For every period and every constant price series of value p with  *)
(* length >= period, getEMA yields exactly p at the seed position (index   *)
(* period - 1, here period) and at every later position.                   *)
(***************************************************************************)
C24_EmaOfConstantSeriesIsExact ==
  (call.fn = "getEMA" /\ call.pc = "done") =>
    \A i \in call.period..call.len : call.ema[i] = call.price

(***************************************************************************)
(* C25.  Evaluations of different timeframes are independent: a            *)
(* processData run for timeframe T writes only state.candleData[T] and     *)
(* state.signals[T]; every step of it leaves the stored candle data and    *)
(* signal of every other timeframe, isActive, selectedTimeframe and        *)
(* accuracyStats unchanged, in any interleaving with other evaluations.    *)
(***************************************************************************)
RunStepped(e) == evals'[e] # evals[e]

C25_RunWritesOnlyItsTimeframe ==
  [][\A e \in Evals :
       RunStepped(e) =>
         /\ \A t \in TIMEFRAMES \ {evals'[e].timeframe} :
              /\ candleData'[t] = candleData[t]
              /\ signals'[t] = signals[t]
         /\ isActive' = isActive
         /\ selectedTimeframe' = selectedTimeframe
         /\ accuracyStats' = accuracyStats]_vars

\* two runs of different timeframes have overlapped and both stored their signal
C25_Witness ==
  /\ evals[1].pc = "done"
  /\ evals[2].pc = "done"
  /\ evals[1].timeframe # evals[2].timeframe
  /\ ~IsUndefined(signals[evals[1].timeframe])
  /\ ~IsUndefined(signals[evals[2].timeframe])
  /\ candleData[evals[1].timeframe] = evals[1].candleData
  /\ candleData[evals[2].timeframe] = evals[2].candleData

(***************************************************************************)
(* C26.  When two 'newCandleData' evaluations for the same timeframe T     *)
(* overlap, then once both have completed state.signals[T] is the signal   *)
(* computed from the series held in state.candleData[T], the most recently *)
(* received one: an older evaluation that finishes last does not overwrite *)
(* the newer signal.  Request 2 is received after request 1.               *)
(***************************************************************************)
BothRunsDoneOn(t) ==
  /\ evals[1].pc = "done"
  /\ evals[2].pc = "done"
  /\ evals[1].timeframe = t
  /\ evals[2].timeframe = t

C26_NewerSignalIsKept ==
  \A t \in TIMEFRAMES :
    (BothRunsDoneOn(t) /\ ~IsNull(evals[2].response.signal)) =>
      /\ candleData[t] = evals[2].candleData
      /\ signals[t] = storedSignal(evals[2].response.signal, evals[2].indicators)

(***************************************************************************)
(* C27.  Once every in-flight message has been delivered, the content      *)
(* script's isActive equals the background's isActive: in particular the   *)
(* reply to the content script's initial 'getState' request cannot         *)
(* overwrite a 'toggleActive' that the content script received after that  *)
(* reply was produced.                                                     *)
(***************************************************************************)
AllDelivered ==
  /\ channel.contentToBackground = <<>>
  /\ channel.popupToBackground = <<>>
  /\ channel.popupToContent = <<>>
  /\ channel.repliesToContent = <<>>
  /\ channel.repliesToPopup = <<>>

C27_ContentFollowsBackground ==
  AllDelivered => content.isActive = isActive

(***************************************************************************)
(* C28.  The content script sends a 'newCandleData' message to the         *)
(* background only while its isActive flag is true: no extraction path     *)
(* (the initial extraction on chart detection, the periodic interval, the  *)
(* re-extraction on a timeframe change, the toggleActive handler) submits  *)
(* candle data while the extension is inactive.                            *)
(***************************************************************************)
SendsNewCandleData == content'.sent > content.sent

C28_SendsOnlyWhileActive ==
  [][SendsNewCandleData => content'.isActive]_vars

(***************************************************************************)
(* C29.  The on-chart overlay only ever displays a signal computed for the *)
(* content script's current timeframe: if the timeframe changes while a    *)
(* 'newCandleData' request is in flight, the signal returned for the old   *)
(* timeframe is not shown under the new timeframe label.  (The background  *)
(* sends 'signalUpdated' with chrome.runtime.sendMessage, which reaches    *)
(* the extension's pages, not the content script.)                         *)
(***************************************************************************)
ResponseCallbackRan(e) == e \in content'.answered /\ e \notin content.answered

C29_OverlayShowsCurrentTimeframe ==
  [][\A e \in Evals :
       (ResponseCallbackRan(e) /\ content'.overlay # content.overlay) =>
         content'.overlay.timeframe = evals[e].timeframe]_vars

(***************************************************************************)
(* C30.  Every action the popup and the content script send to the         *)
(* background is handled by it: in particular, after a signal has been     *)
(* stored for timeframe T, the popup's 'getSignal' request for T is        *)
(* answered with success and that stored signal.                           *)
(***************************************************************************)
HandlesGetSignal ==
  /\ channel.popupToBackground # <<>>
  /\ Head(channel.popupToBackground).action = "getSignal"
  /\ channel'.popupToBackground = Tail(channel.popupToBackground)

RequestedSignal == signals[Head(channel.popupToBackground).timeframe]

C30_GetSignalIsAnswered ==
  [][(HandlesGetSignal /\ ~IsUndefined(RequestedSignal)) =>
       /\ channel'.repliesToPopup # <<>>
       /\ channel'.repliesToPopup[Len(channel'.repliesToPopup)] =
            [to |-> "getSignal",
             response |-> [success |-> TRUE, signal |-> RequestedSignal]]]_vars

=============================================================================
